---- MODULE Spec2Model ----
(***************************************************************************)
(* Model of the code-generation engine of prongbang/codegen:               *)
(*   src/src/config.rs                      Config, get_language_type,     *)
(*                                          should_include_table           *)
(*   src/src/generators/template_generator.rs  TemplateCodeGenerator       *)
(*   src/src/main.rs                        the per-language driver loop   *)
(*                                                                         *)
(* Strings the code only compares for equality (language names, strategy   *)
(* names, import paths, database types) are TLA+ strings.  Strings the     *)
(* code builds, slices or scans (type strings, identifiers, patterns,      *)
(* extensions) are sequences of one-character strings, so concatenation    *)
(* is \o and starts_with / contains / trim are computed.                   *)
(* An Option<T> is a sequence of length at most one.                       *)
(***************************************************************************)
EXTENDS Integers, Sequences, FiniteSets, TLC

VARIABLES
    cfg,                        \* Config, after the CLI overrides (main.rs 72-113)
    active_db_config,           \* DatabaseConfig of the active database
    schema,                     \* DatabaseSchema returned by the connector
    fs,                         \* the file system: template files, output dir, written files
    pc,                         \* position of main / generate_code
    lang_idx,                   \* index into cfg.generation.target_languages (main.rs 150)
    generator,                  \* the TemplateCodeGenerator of the current language
    lang_name_for_mapping,      \* generate_code local (template_generator.rs 299)
    output_extension,           \* generate_code local (template_generator.rs 308)
    table_idx,                  \* index of the table in schema.tables (317)
    column_idx,                 \* index of the column in table.columns (350)
    template_data,              \* the json! context of the current table (333)
    columns_data_for_template,  \* Vec of column records (330)
    dynamic_imports,            \* Vec of imports registered by nullability (348)
    raw_lang_type,              \* generate_code local of the last column (351)
    stdout,                     \* the println! lines, in order
    error,                      \* the Err main returns, if any
    call                        \* last application of a pure function (pure-function specifications)

vars == <<cfg, active_db_config, schema, fs, pc, lang_idx, generator,
          lang_name_for_mapping, output_extension, table_idx, column_idx,
          template_data, columns_data_for_template, raw_lang_type, dynamic_imports,
          stdout, error, call>>

(***************************************************************************)
(* Option<T> and HashMap lookups                                           *)
(***************************************************************************)
None == <<>>

Some(x) == <<x>>

MapGet(m, k) == IF k \in DOMAIN m THEN Some(m[k]) ELSE None

EmptyMap == [k \in {} |-> None]

(***************************************************************************)
(* String literals of the source, as character sequences                   *)
(***************************************************************************)
s_string == <<"s", "t", "r", "i", "n", "g">>
s_int64 == <<"i", "n", "t", "6", "4">>
s_float64 == <<"f", "l", "o", "a", "t", "6", "4">>
s_bool == <<"b", "o", "o", "l">>
s_time_Time == <<"t", "i", "m", "e", ".", "T", "i", "m", "e">>
s_go_bytes == <<"[", "]", "b", "y", "t", "e">>
s_String == <<"S", "t", "r", "i", "n", "g">>
s_i64 == <<"i", "6", "4">>
s_f64 == <<"f", "6", "4">>
s_NaiveDateTime == <<"c", "h", "r", "o", "n", "o", ":", ":", "N", "a", "i", "v", "e", "D", "a", "t", "e", "T", "i", "m", "e">>
s_Vec_u8 == <<"V", "e", "c", "<", "u", "8", ">">>
s_number == <<"n", "u", "m", "b", "e", "r">>
s_boolean == <<"b", "o", "o", "l", "e", "a", "n">>
s_Date == <<"D", "a", "t", "e">>
s_Uint8Array == <<"U", "i", "n", "t", "8", "A", "r", "r", "a", "y">>
s_long == <<"l", "o", "n", "g">>
s_double == <<"d", "o", "u", "b", "l", "e">>
s_DateTime == <<"D", "a", "t", "e", "T", "i", "m", "e">>
s_byte_arr == <<"b", "y", "t", "e", "[", "]">>
s_int == <<"i", "n", "t">>
s_LocalDateTime == <<"j", "a", "v", "a", ".", "t", "i", "m", "e", ".", "L", "o", "c", "a", "l", "D", "a", "t", "e", "T", "i", "m", "e">>
s_str == <<"s", "t", "r">>
s_any == <<"a", "n", "y">>
s_NullTime == <<"s", "q", "l", ".", "N", "u", "l", "l", "T", "i", "m", "e">>
s_NullString == <<"s", "q", "l", ".", "N", "u", "l", "l", "S", "t", "r", "i", "n", "g">>
s_NullInt64 == <<"s", "q", "l", ".", "N", "u", "l", "l", "I", "n", "t", "6", "4">>
s_NullFloat64 == <<"s", "q", "l", ".", "N", "u", "l", "l", "F", "l", "o", "a", "t", "6", "4">>
s_NullBool == <<"s", "q", "l", ".", "N", "u", "l", "l", "B", "o", "o", "l">>
s_string_q == <<"s", "t", "r", "i", "n", "g", "?">>
s_Integer == <<"I", "n", "t", "e", "g", "e", "r">>
s_Long == <<"L", "o", "n", "g">>
s_Boolean == <<"B", "o", "o", "l", "e", "a", "n">>
s_Float == <<"F", "l", "o", "a", "t">>
s_Double == <<"D", "o", "u", "b", "l", "e">>
s_float == <<"f", "l", "o", "a", "t">>
s_star == <<"*">>
s_Option_lt == <<"O", "p", "t", "i", "o", "n", "<">>
s_gt == <<">">>
s_q == <<"?">>
s_or_null == <<" ", "|", " ", "n", "u", "l", "l">>
s_time_dot == <<"t", "i", "m", "e", ".">>
s_Optional_lb == <<"O", "p", "t", "i", "o", "n", "a", "l", "[">>
s_rb == <<"]">>
s_Option_lb == <<"O", "p", "t", "i", "o", "n", "[">>
s_Maybe == <<"M", "a", "y", "b", "e", " ">>
s_option_suffix == <<" ", "o", "p", "t", "i", "o", "n">>
s_time_Duration == <<"t", "i", "m", "e", ".", "D", "u", "r", "a", "t", "i", "o", "n">>
s_UUID == <<"U", "U", "I", "D">>
s_int32 == <<"i", "n", "t", "3", "2">>
s_timestamp == <<"t", "i", "m", "e", "s", "t", "a", "m", "p">>

(***************************************************************************)
(* config.rs: Config::get_language_type                                    *)
(***************************************************************************)
\* The hardcoded fallback table, the match on (lang, generic_type).
BuiltInType(lang, generic_type) ==
    CASE lang = "go" /\ generic_type = "string" -> Some(s_string)
      [] lang = "go" /\ generic_type = "integer" -> Some(s_int64)
      [] lang = "go" /\ generic_type = "float" -> Some(s_float64)
      [] lang = "go" /\ generic_type = "boolean" -> Some(s_bool)
      [] lang = "go" /\ generic_type = "datetime" -> Some(s_time_Time)
      [] lang = "go" /\ generic_type = "bytes" -> Some(s_go_bytes)
      [] lang = "rust" /\ generic_type = "string" -> Some(s_String)
      [] lang = "rust" /\ generic_type = "integer" -> Some(s_i64)
      [] lang = "rust" /\ generic_type = "float" -> Some(s_f64)
      [] lang = "rust" /\ generic_type = "boolean" -> Some(s_bool)
      [] lang = "rust" /\ generic_type = "datetime" -> Some(s_NaiveDateTime)
      [] lang = "rust" /\ generic_type = "bytes" -> Some(s_Vec_u8)
      [] lang = "typescript" /\ generic_type = "string" -> Some(s_string)
      [] lang = "typescript" /\ generic_type = "integer" -> Some(s_number)
      [] lang = "typescript" /\ generic_type = "float" -> Some(s_number)
      [] lang = "typescript" /\ generic_type = "boolean" -> Some(s_boolean)
      [] lang = "typescript" /\ generic_type = "datetime" -> Some(s_Date)
      [] lang = "typescript" /\ generic_type = "bytes" -> Some(s_Uint8Array)
      [] lang = "csharp" /\ generic_type = "string" -> Some(s_string)
      [] lang = "csharp" /\ generic_type = "integer" -> Some(s_long)
      [] lang = "csharp" /\ generic_type = "float" -> Some(s_double)
      [] lang = "csharp" /\ generic_type = "boolean" -> Some(s_bool)
      [] lang = "csharp" /\ generic_type = "datetime" -> Some(s_DateTime)
      [] lang = "csharp" /\ generic_type = "bytes" -> Some(s_byte_arr)
      [] lang = "java" /\ generic_type = "string" -> Some(s_String)
      [] lang = "java" /\ generic_type = "integer" -> Some(s_int)
      [] lang = "java" /\ generic_type = "float" -> Some(s_double)
      [] lang = "java" /\ generic_type = "boolean" -> Some(s_boolean)
      [] lang = "java" /\ generic_type = "datetime" -> Some(s_LocalDateTime)
      [] lang = "java" /\ generic_type = "bytes" -> Some(s_byte_arr)
      [] OTHER -> None

\* type_mappings.get(db_type).and_then(get(db_column_type))
\*              .and_then(language_types.get(lang).cloned())
ConfiguredType(c, db_type, db_column_type, lang) ==
    LET db_map   == MapGet(c.type_mappings, db_type)
        type_map == IF db_map = None THEN None ELSE MapGet(db_map[1], db_column_type)
    IN  IF type_map = None THEN None ELSE MapGet(type_map[1].language_types, lang)

\* A plausible slip: the built-in table is consulted first.
get_language_type_builtin_first(c, db_type, db_column_type, generic_type, lang) ==
    IF BuiltInType(lang, generic_type) # None
    THEN BuiltInType(lang, generic_type)
    ELSE ConfiguredType(c, db_type, db_column_type, lang)

\* A plausible slip: the arms of the match are keyed (generic_type, lang).
get_language_type_swapped_key(c, db_type, db_column_type, generic_type, lang) ==
    LET specific == ConfiguredType(c, db_type, db_column_type, lang)
    IN  IF specific # None THEN specific ELSE BuiltInType(generic_type, lang)

\* A plausible slip: when the entry lists no type for the language, the built-in
\* table is keyed by the entry's generic field.
get_language_type_entry_generic(c, db_type, db_column_type, generic_type, lang) ==
    LET specific == ConfiguredType(c, db_type, db_column_type, lang)
        db_map   == MapGet(c.type_mappings, db_type)
        type_map == IF db_map = None THEN None ELSE MapGet(db_map[1], db_column_type)
    IN  IF specific # None THEN specific
        ELSE IF type_map # None THEN BuiltInType(lang, type_map[1].generic)
        ELSE BuiltInType(lang, generic_type)

get_language_type(c, db_type, db_column_type, generic_type, lang) ==
    LET specific == ConfiguredType(c, db_type, db_column_type, lang)
    IN  IF specific # None THEN specific ELSE BuiltInType(lang, generic_type)

(***************************************************************************)
(* Characters and the str methods the code uses                            *)
(***************************************************************************)
LowerChars == <<"a", "b", "c", "d", "e", "f", "g", "h", "i", "j", "k", "l", "m",
                "n", "o", "p", "q", "r", "s", "t", "u", "v", "w", "x", "y", "z">>

UpperChars == <<"A", "B", "C", "D", "E", "F", "G", "H", "I", "J", "K", "L", "M",
                "N", "O", "P", "Q", "R", "S", "T", "U", "V", "W", "X", "Y", "Z">>

DigitChars == <<"0", "1", "2", "3", "4", "5", "6", "7", "8", "9">>

Range(s) == {s[i] : i \in DOMAIN s}

is_lowercase(c) == c \in Range(LowerChars)

is_uppercase(c) == c \in Range(UpperChars)

is_numeric(c) == c \in Range(DigitChars)

is_alphanumeric(c) == is_lowercase(c) \/ is_uppercase(c) \/ is_numeric(c)

to_ascii_lowercase(c) ==
    IF is_uppercase(c)
    THEN LowerChars[CHOOSE i \in DOMAIN UpperChars : UpperChars[i] = c]
    ELSE c

to_ascii_uppercase(c) ==
    IF is_lowercase(c)
    THEN UpperChars[CHOOSE i \in DOMAIN LowerChars : LowerChars[i] = c]
    ELSE c

\* str::starts_with
starts_with(text, prefix) ==
    /\ Len(prefix) <= Len(text)
    /\ SubSeq(text, 1, Len(prefix)) = prefix

\* str::ends_with
ends_with(text, suffix) ==
    /\ Len(suffix) <= Len(text)
    /\ SubSeq(text, Len(text) - Len(suffix) + 1, Len(text)) = suffix

\* str::contains(&str)
contains(text, middle) ==
    \E i \in 1..(Len(text) - Len(middle) + 1) :
        SubSeq(text, i, i + Len(middle) - 1) = middle

\* Vec::contains
vec_contains(v, x) == \E i \in DOMAIN v : v[i] = x

\* str::trim_start_matches('.')
RECURSIVE trim_start_dots(_)
trim_start_dots(s) ==
    IF s # <<>> /\ Head(s) = "." THEN trim_start_dots(Tail(s)) ELSE s

(***************************************************************************)
(* The Inflector crate's conversions called by apply_case_conversion and   *)
(* by generate_code (cases/case/mod.rs of Inflector 0.11)                  *)
(***************************************************************************)
char_is_seperator(c) == ~is_alphanumeric(c)

\* trim_end_matches(is_not_alphanumeric)
RECURSIVE trim_right(_)
trim_right(s) ==
    IF s # <<>> /\ ~is_alphanumeric(s[Len(s)])
    THEN trim_right(SubSeq(s, 1, Len(s) - 1))
    ELSE s

\* chars().nth(i).unwrap_or('A'), with positions counted from 1
nth_or_A(s, i) == IF i \in DOMAIN s THEN s[i] ELSE "A"

next_or_previous_char_is_lowercase(s, i) ==
    is_lowercase(nth_or_A(s, i + 1)) \/ is_lowercase(nth_or_A(s, i - 1))

requires_seperator(s, i, first_character) ==
    /\ ~first_character
    /\ is_uppercase(s[i])
    /\ next_or_previous_char_is_lowercase(s, i)

snake_char(c, case) ==
    IF case = "lower" THEN to_ascii_lowercase(c) ELSE to_ascii_uppercase(c)

RECURSIVE snake_like_loop(_, _, _, _, _, _, _)
snake_like_loop(s, n, i, first_character, result, replace_with, case) ==
    IF i > n THEN result
    ELSE IF char_is_seperator(s[i])
         THEN IF ~first_character
              THEN snake_like_loop(s, n, i + 1, TRUE, Append(result, replace_with),
                                   replace_with, case)
              ELSE snake_like_loop(s, n, i + 1, first_character, result,
                                   replace_with, case)
         ELSE IF requires_seperator(s, i, first_character)
              THEN snake_like_loop(s, n, i + 1, FALSE,
                                   result \o <<replace_with, snake_char(s[i], case)>>,
                                   replace_with, case)
              ELSE snake_like_loop(s, n, i + 1, FALSE,
                                   Append(result, snake_char(s[i], case)),
                                   replace_with, case)

to_case_snake_like(s, replace_with, case) ==
    snake_like_loop(s, Len(trim_right(s)), 1, TRUE, <<>>, replace_with, case)

last_char_lower_current_is_upper_or_new_word(new_word, last_char, c) ==
    new_word \/ (is_lowercase(last_char) /\ is_uppercase(c) /\ last_char # " ")

\* st = [new_word, first_word, last_char, found_real_char, result]
RECURSIVE camel_like_loop(_, _, _, _)
camel_like_loop(s, n, i, st) ==
    IF i > n THEN st.result
    ELSE LET c == s[i] IN
         IF char_is_seperator(c) /\ st.found_real_char
         THEN camel_like_loop(s, n, i + 1, [st EXCEPT !.new_word = TRUE])
         ELSE IF ~st.found_real_char /\ ~is_alphanumeric(c)
         THEN camel_like_loop(s, n, i + 1, st)
         ELSE IF is_numeric(c)
         THEN camel_like_loop(s, n, i + 1,
                  [st EXCEPT !.found_real_char = TRUE, !.new_word = TRUE,
                             !.result = Append(st.result, c)])
         ELSE IF last_char_lower_current_is_upper_or_new_word(st.new_word, st.last_char, c)
         THEN camel_like_loop(s, n, i + 1,
                  [st EXCEPT !.found_real_char = TRUE, !.new_word = FALSE,
                             !.first_word = FALSE,
                             !.result = Append(st.result, to_ascii_uppercase(c))])
         ELSE camel_like_loop(s, n, i + 1,
                  [st EXCEPT !.found_real_char = TRUE, !.last_char = c,
                             !.result = Append(st.result, to_ascii_lowercase(c))])

to_case_camel_like(s, new_word) ==
    camel_like_loop(s, Len(trim_right(s)), 1,
                    [new_word |-> new_word, first_word |-> FALSE, last_char |-> " ",
                     found_real_char |-> FALSE, result |-> <<>>])

to_pascal_case(s) == to_case_camel_like(s, TRUE)

to_camel_case(s) == to_case_camel_like(s, FALSE)

to_snake_case(s) == to_case_snake_like(s, "_", "lower")

to_kebab_case(s) == to_case_snake_like(s, "-", "lower")

to_screaming_snake_case(s) == to_case_snake_like(s, "_", "upper")

(***************************************************************************)
(* template_generator.rs: apply_case_conversion                            *)
(***************************************************************************)
\* A plausible slip: the catch-all arm converts instead of passing through.
apply_case_conversion_default_snake(input, case_type) ==
    CASE case_type = "PascalCase" -> to_pascal_case(input)
      [] case_type = "camelCase" -> to_camel_case(input)
      [] case_type = "kebab-case" -> to_kebab_case(input)
      [] case_type = "SCREAMING_SNAKE_CASE" -> to_screaming_snake_case(input)
      [] OTHER -> to_snake_case(input)

apply_case_conversion(input, case_type) ==
    CASE case_type = "PascalCase" -> to_pascal_case(input)
      [] case_type = "camelCase" -> to_camel_case(input)
      [] case_type = "snake_case" -> to_snake_case(input)
      [] case_type = "kebab-case" -> to_kebab_case(input)
      [] case_type = "SCREAMING_SNAKE_CASE" -> to_screaming_snake_case(input)
      [] OTHER -> input

(***************************************************************************)
(* template_generator.rs: generate_code, the per-column resolution         *)
(***************************************************************************)
\* The unwrap_or_else arm: the per-language last-resort type (366-376).
FallbackType(lang) ==
    CASE lang = "rust" -> s_String
      [] lang = "typescript" -> s_string
      [] lang = "python" -> s_str
      [] lang = "java" -> s_String
      [] lang = "csharp" -> s_string
      [] lang = "go" -> s_string
      [] lang = "php" -> s_string
      [] lang = "ruby" -> s_String
      [] OTHER -> s_any

\* The println! of the unwrap_or_else arm (360-365).
FallbackWarning(db_type, column, lang) ==
    <<"Warning: No type mapping found, using fallback", db_type,
      column.database_type, lang>>

\* A plausible slip: a missing mapping is fatal for the type, no catch-all is applied.
raw_lang_type_of_no_fallback(c, db_type, column, lang) ==
    LET found == get_language_type(c, db_type, column.database_type,
                                   column.generic_type, lang)
    IN  IF found # None
        THEN [t |-> found[1], warning |-> <<>>]
        ELSE [t |-> <<>>, warning |-> <<>>]

\* let raw_lang_type = get_language_type(..).unwrap_or_else(..) (351-377):
\* the type, and the lines printed while resolving it.
raw_lang_type_of(c, db_type, column, lang) ==
    LET found == get_language_type(c, db_type, column.database_type,
                                   column.generic_type, lang)
    IN  IF found # None
        THEN [t |-> found[1], warning |-> <<>>]
        ELSE [t |-> FallbackType(lang),
              warning |-> <<FallbackWarning(db_type, column, lang)>>]

\* A plausible slip: a reference marker instead of the pointer marker.
PointerType_reference(raw) == <<"&">> \o raw

\* "pointer" => format!("*{}", raw_lang_type) (381)
PointerType(raw) == s_star \o raw

\* A plausible slip: the bracket form of another language's option type.
OptionType_square_brackets(raw) == <<"O", "p", "t", "i", "o", "n", "[">> \o raw \o <<"]">>

\* "option" => format!("Option<{}>", raw_lang_type) (382)
OptionType(raw) == s_Option_lt \o raw \o s_gt

\* "union" => format!("{} | null", raw_lang_type) (426)
UnionType(raw) == raw \o s_or_null

\* A plausible slip: only time.Time itself, not every time.* type, is a NullTime.
NullableTypeGo_only_time_Time(raw, imports) ==
    IF raw = s_time_Time
    THEN [t |-> s_NullTime, imports |-> imports \o <<"time", "database/sql">>]
    ELSE [t |-> CASE raw = s_string -> s_NullString
                  [] raw = s_int64 -> s_NullInt64
                  [] raw = s_float64 -> s_NullFloat64
                  [] raw = s_bool -> s_NullBool
                  [] OTHER -> s_star \o raw,
          imports |-> Append(imports, "database/sql")]

\* The "go" arm of "nullable_type" (386-401): [t, imports].
NullableTypeGo(raw, imports) ==
    IF starts_with(raw, s_time_dot)
    THEN [t |-> s_NullTime, imports |-> imports \o <<"time", "database/sql">>]
    ELSE [t |-> CASE raw = s_string -> s_NullString
                  [] raw = s_int64 -> s_NullInt64
                  [] raw = s_float64 -> s_NullFloat64
                  [] raw = s_bool -> s_NullBool
                  [] OTHER -> s_star \o raw,
          imports |-> Append(imports, "database/sql")]

\* The "nullable_type" arm (383-425).
NullableType(raw, lang, imports) ==
    CASE lang = "go" -> NullableTypeGo(raw, imports)
      [] lang = "csharp" ->
            [t |-> IF raw = s_string THEN s_string_q ELSE raw \o s_q, imports |-> imports]
      [] lang = "java" ->
            [t |-> CASE raw = s_int -> s_Integer
                     [] raw = s_long -> s_Long
                     [] raw = s_boolean -> s_Boolean
                     [] raw = s_float -> s_Float
                     [] raw = s_double -> s_Double
                     [] OTHER -> raw,
             imports |-> imports]
      [] lang = "php" -> [t |-> s_q \o raw, imports |-> imports]
      [] lang = "kotlin" -> [t |-> raw \o s_q, imports |-> imports]
      [] lang = "swift" -> [t |-> raw \o s_q, imports |-> imports]
      [] lang = "dart" -> [t |-> raw \o s_q, imports |-> imports]
      [] OTHER -> [t |-> raw \o s_or_null, imports |-> imports]

\* A plausible slip: the import is pushed without the contains check.
OptionalType_always_push(raw, lang, imports) ==
    CASE lang = "python" ->
            [t |-> s_Optional_lb \o raw \o s_rb,
             imports |-> Append(imports, "typing.Optional")]
      [] lang = "zig" -> [t |-> s_q \o raw, imports |-> imports]
      [] lang = "nim" -> [t |-> s_Option_lb \o raw \o s_rb, imports |-> imports]
      [] lang = "haskell" -> [t |-> s_Maybe \o raw, imports |-> imports]
      [] lang = "ocaml" -> [t |-> raw \o s_option_suffix, imports |-> imports]
      [] OTHER -> [t |-> raw, imports |-> imports]

\* The "optional_type" arm (428-444).
OptionalType(raw, lang, imports) ==
    CASE lang = "python" ->
            [t |-> s_Optional_lb \o raw \o s_rb,
             imports |-> IF ~vec_contains(imports, "typing.Optional")
                         THEN Append(imports, "typing.Optional")
                         ELSE imports]
      [] lang = "zig" -> [t |-> s_q \o raw, imports |-> imports]
      [] lang = "nim" -> [t |-> s_Option_lb \o raw \o s_rb, imports |-> imports]
      [] lang = "haskell" -> [t |-> s_Maybe \o raw, imports |-> imports]
      [] lang = "ocaml" -> [t |-> raw \o s_option_suffix, imports |-> imports]
      [] OTHER -> [t |-> raw, imports |-> imports]

\* match self.lang_config.nullable_strategy.as_str() (380-447):
\* [t |-> the type, imports |-> dynamic_imports after the arm]
NullableTransform(raw, strategy, lang, imports) ==
    CASE strategy = "pointer" -> [t |-> PointerType(raw), imports |-> imports]
      [] strategy = "option" -> [t |-> OptionType(raw), imports |-> imports]
      [] strategy = "nullable_type" -> NullableType(raw, lang, imports)
      [] strategy = "union" -> [t |-> UnionType(raw), imports |-> imports]
      [] strategy = "optional_property" -> [t |-> raw, imports |-> imports]
      [] strategy = "optional_type" -> OptionalType(raw, lang, imports)
      [] strategy = "native" -> [t |-> raw, imports |-> imports]
      [] OTHER -> [t |-> raw, imports |-> imports]

\* A plausible slip: the strategy is applied whether or not the column is nullable.
EffectiveLangType_ignores_is_nullable(raw, is_nullable, strategy, lang, imports) ==
    NullableTransform(raw, strategy, lang, imports)

\* let effective_lang_type = if column.is_nullable { match .. } else { raw_lang_type }
\* (379-450)
EffectiveLangType(raw, is_nullable, strategy, lang, imports) ==
    IF is_nullable
    THEN NullableTransform(raw, strategy, lang, imports)
    ELSE [t |-> raw, imports |-> imports]

\* field_name_case.as_deref().unwrap_or(column_to_field_case), then the prefix (452-461)
FieldName(c, lang_config, column) ==
    LET case_fn == IF lang_config.field_name_case # None
                   THEN lang_config.field_name_case[1]
                   ELSE c.naming_conventions.column_to_field_case
        name    == apply_case_conversion(column.name, case_fn)
    IN  IF lang_config.field_prefix # None
        THEN lang_config.field_prefix[1] \o name
        ELSE name

\* struct_name_case.as_deref().unwrap_or(table_to_struct_case) (323-328)
StructName(c, lang_config, table) ==
    apply_case_conversion(table.name,
        IF lang_config.struct_name_case # None
        THEN lang_config.struct_name_case[1]
        ELSE c.naming_conventions.table_to_struct_case)

(***************************************************************************)
(* template_generator.rs: generate_code, the tags of a column (463-600)    *)
(*                                                                         *)
(* A tag template string is [kind, pre, post]:                             *)
(*   "text"         pre, a template with no expression                     *)
(*   "column_name"  pre {{column_name}} post                               *)
(*   "invalid"      a string Handlebars cannot parse, render_template Errs *)
(***************************************************************************)
RECURSIVE trim_start(_)
trim_start(s) == IF s # <<>> /\ Head(s) \in {" ", "\n", "\t"} THEN trim_start(Tail(s)) ELSE s

RECURSIVE trim_end(_)
trim_end(s) ==
    IF s # <<>> /\ s[Len(s)] \in {" ", "\n", "\t"}
    THEN trim_end(SubSeq(s, 1, Len(s) - 1))
    ELSE s

\* str::trim
trim(s) == trim_end(trim_start(s))

\* tag_handlebars.render_template(tag_template_str, &tag_data): Result<String>
render_template(tag, column) ==
    CASE tag.kind = "text" -> Some(tag.pre)
      [] tag.kind = "column_name" -> Some(tag.pre \o column.name \o tag.post)
      [] OTHER -> None

\* A plausible slip: a render error ends the loop over the tag templates, as a ?
\* on the render would.
RECURSIVE RenderTags_stop_at_failure(_, _, _, _)
RenderTags_stop_at_failure(tag_templates, i, column, tags) ==
    IF i > Len(tag_templates) THEN tags
    ELSE LET rendered == render_template(tag_templates[i], column) IN
         IF rendered = None THEN tags
         ELSE RenderTags_stop_at_failure(tag_templates, i + 1, column,
                    IF trim(rendered[1]) # <<>>
                    THEN Append(tags, trim(rendered[1]))
                    ELSE tags)

\* The loop over lang_tags_cfg (465-546): the Vec tags.
RECURSIVE RenderTags(_, _, _, _)
RenderTags(tag_templates, i, column, tags) ==
    IF i > Len(tag_templates) THEN tags
    ELSE LET rendered == render_template(tag_templates[i], column) IN
         RenderTags(tag_templates, i + 1, column,
                    IF rendered # None /\ trim(rendered[1]) # <<>>
                    THEN Append(tags, trim(rendered[1]))
                    ELSE tags)

ColumnTags(lang_config, column) ==
    IF lang_config.tags # None
    THEN RenderTags(lang_config.tags[1], 1, column, <<>>)
    ELSE <<>>

\* [String]::join
RECURSIVE join(_, _)
join(strs, sep) ==
    IF strs = <<>> THEN <<>>
    ELSE IF Len(strs) = 1 THEN strs[1]
    ELSE strs[1] \o sep \o join(Tail(strs), sep)

\* The grave accent U+0060 that wraps the tags of a Go field; the lexer of TLA+
\* reads that character inside a string as the start of quoted text.
c_backtick == "U+0060"

\* A plausible slip: the "go" arm wraps the joined tags without the is_empty check.
final_tags_string_go_always_wraps(lang, tags) ==
    CASE lang = "go" -> <<c_backtick>> \o join(tags, <<" ">>) \o <<c_backtick>>
      [] lang \in {"rust", "csharp", "java", "python", "php"} ->
            IF tags = <<>> THEN <<>> ELSE join(tags, <<"\n", " ", " ", " ", " ">>)
      [] OTHER -> <<>>

\* let final_tags_string = match lang_name_for_mapping (550-600)
final_tags_string(lang, tags) ==
    CASE lang = "go" ->
            IF tags = <<>> THEN <<>> ELSE <<c_backtick>> \o join(tags, <<" ">>) \o <<c_backtick>>
      [] lang \in {"rust", "csharp", "java", "python", "php"} ->
            IF tags = <<>> THEN <<>> ELSE join(tags, <<"\n", " ", " ", " ", " ">>)
      [] OTHER -> <<>>

(***************************************************************************)
(* config.rs: matches_pattern, Config::should_include_table                *)
(***************************************************************************)
\* A plausible slip: the arms for *suffix and prefix* are exchanged.
matches_pattern_arms_exchanged(text, pattern) ==
    IF pattern = <<"*">> THEN TRUE
    ELSE IF vec_contains(pattern, "*")
    THEN IF Head(pattern) = "*" /\ pattern[Len(pattern)] = "*"
         THEN contains(text, SubSeq(pattern, 2, Len(pattern) - 1))
         ELSE IF Head(pattern) = "*"
         THEN starts_with(text, SubSeq(pattern, 2, Len(pattern)))
         ELSE IF pattern[Len(pattern)] = "*"
         THEN ends_with(text, SubSeq(pattern, 1, Len(pattern) - 1))
         ELSE text = pattern
    ELSE text = pattern

\* A plausible slip: a pattern with a wildcard in an interior position is matched
\* as a glob, the text before the first '*' as a prefix and the text after the
\* last '*' as a suffix.
matches_pattern_interior_glob(text, pattern) ==
    IF pattern = <<"*">> THEN TRUE
    ELSE IF vec_contains(pattern, "*")
    THEN IF Head(pattern) = "*" /\ pattern[Len(pattern)] = "*"
         THEN contains(text, SubSeq(pattern, 2, Len(pattern) - 1))
         ELSE IF Head(pattern) = "*"
         THEN ends_with(text, SubSeq(pattern, 2, Len(pattern)))
         ELSE IF pattern[Len(pattern)] = "*"
         THEN starts_with(text, SubSeq(pattern, 1, Len(pattern) - 1))
         ELSE LET stars == {i \in DOMAIN pattern : pattern[i] = "*"}
                  first == CHOOSE i \in stars : \A j \in stars : i <= j
                  last == CHOOSE i \in stars : \A j \in stars : j <= i
              IN  /\ Len(text) >= Len(pattern) - (last - first + 1)
                  /\ starts_with(text, SubSeq(pattern, 1, first - 1))
                  /\ ends_with(text, SubSeq(pattern, last + 1, Len(pattern)))
    ELSE text = pattern

matches_pattern(text, pattern) ==
    IF pattern = <<"*">> THEN TRUE
    ELSE IF vec_contains(pattern, "*")
    THEN IF Head(pattern) = "*" /\ pattern[Len(pattern)] = "*"
         THEN contains(text, SubSeq(pattern, 2, Len(pattern) - 1))
         ELSE IF Head(pattern) = "*"
         THEN ends_with(text, SubSeq(pattern, 2, Len(pattern)))
         ELSE IF pattern[Len(pattern)] = "*"
         THEN starts_with(text, SubSeq(pattern, 1, Len(pattern) - 1))
         ELSE text = pattern
    ELSE text = pattern

\* A plausible slip: the include patterns are consulted before the exclude patterns.
should_include_table_include_first(c, table_name) ==
    IF c.generation.table_name_patterns # None
    THEN LET patterns == c.generation.table_name_patterns[1] IN
         IF \E i \in DOMAIN patterns.include : matches_pattern(table_name, patterns.include[i])
         THEN TRUE
         ELSE FALSE
    ELSE TRUE

should_include_table(c, table_name) ==
    IF c.generation.table_name_patterns # None
    THEN LET patterns == c.generation.table_name_patterns[1] IN
         IF \E i \in DOMAIN patterns.exclude : matches_pattern(table_name, patterns.exclude[i])
         THEN FALSE
         ELSE \E i \in DOMAIN patterns.include : matches_pattern(table_name, patterns.include[i])
    ELSE TRUE

(***************************************************************************)
(* template_generator.rs: the lookup tables of template resolution         *)
(***************************************************************************)
get_default_output_extension(language_name) ==
    CASE language_name = "rust" -> Some(<<"r", "s">>)
      [] language_name = "typescript" -> Some(<<"t", "s">>)
      [] language_name = "go" -> Some(<<"g", "o">>)
      [] language_name = "python" -> Some(<<"p", "y">>)
      [] language_name = "java" -> Some(<<"j", "a", "v", "a">>)
      [] language_name = "csharp" -> Some(<<"c", "s">>)
      [] language_name = "php" -> Some(<<"p", "h", "p">>)
      [] language_name = "ruby" -> Some(<<"r", "b">>)
      [] language_name = "swift" -> Some(<<"s", "w", "i", "f", "t">>)
      [] language_name = "kotlin" -> Some(<<"k", "t">>)
      [] language_name = "dart" -> Some(<<"d", "a", "r", "t">>)
      [] language_name = "zig" -> Some(<<"z", "i", "g">>)
      [] language_name = "nim" -> Some(<<"n", "i", "m">>)
      [] language_name = "haskell" -> Some(<<"h", "s">>)
      [] language_name = "elixir" -> Some(<<"e", "x">>)
      [] language_name = "crystal" -> Some(<<"c", "r">>)
      [] language_name = "ocaml" -> Some(<<"m", "l">>)
      [] OTHER -> None

get_default_template_file(ext) ==
    LET e == trim_start_dots(ext) IN
    CASE e = <<"r", "s">> -> Some("rust_struct.hbs")
      [] e = <<"t", "s">> -> Some("typescript_interface.hbs")
      [] e = <<"g", "o">> -> Some("go_struct.hbs")
      [] e = <<"p", "y">> -> Some("python_class.hbs")
      [] e = <<"j", "a", "v", "a">> -> Some("java_class.hbs")
      [] e = <<"c", "s">> -> Some("csharp_class.hbs")
      [] e = <<"p", "h", "p">> -> Some("php_class.hbs")
      [] e = <<"r", "b">> -> Some("ruby_class.hbs")
      [] e = <<"s", "w", "i", "f", "t">> -> Some("swift_struct.hbs")
      [] e = <<"k", "t">> -> Some("kotlin_class.hbs")
      [] e = <<"d", "a", "r", "t">> -> Some("dart_class.hbs")
      [] e = <<"z", "i", "g">> -> Some("zig_struct.hbs")
      [] e = <<"n", "i", "m">> -> Some("nim_type.hbs")
      [] e = <<"h", "s">> -> Some("haskell_data.hbs")
      [] e \in {<<"e", "x">>, <<"e", "x", "s">>} -> Some("elixir_struct.hbs")
      [] e = <<"c", "r">> -> Some("crystal_class.hbs")
      [] e \in {<<"m", "l">>, <<"m", "l", "i">>} -> Some("ocaml_type.hbs")
      [] OTHER -> None

BuiltInTemplateNames ==
    {"rust_struct.hbs", "typescript_interface.hbs", "go_struct.hbs", "python_class.hbs",
     "java_class.hbs", "csharp_class.hbs", "php_class.hbs", "ruby_class.hbs",
     "swift_struct.hbs", "kotlin_class.hbs", "dart_class.hbs", "zig_struct.hbs",
     "nim_type.hbs", "haskell_data.hbs", "elixir_struct.hbs", "crystal_class.hbs",
     "ocaml_type.hbs"}

\* A template text: what Handlebars does with it when it is registered and rendered.
TemplateText(id, compiles, renders) == [id |-> id, compiles |-> compiles, renders |-> renders]

\* include_str!("../../templates/<name>"): the embedded texts are well-formed templates.
BuiltInTemplateText(template_file) == TemplateText(<<"built-in", template_file>>, TRUE, TRUE)

\* A plausible slip: an unknown name falls back on a default built-in template.
get_built_in_template_with_default(template_file) ==
    IF template_file \in BuiltInTemplateNames
    THEN Some(BuiltInTemplateText(template_file))
    ELSE Some(BuiltInTemplateText("rust_struct.hbs"))

get_built_in_template(template_file) ==
    IF template_file \in BuiltInTemplateNames
    THEN Some(BuiltInTemplateText(template_file))
    ELSE None

\* languages.iter().find(|(_, config)| *config == lang_config).map(name)
\*          .unwrap_or("unknown")   (262-267 and 299-305)
\* The HashMap is iterated in c.languages_iter, the order of the table of this run.
FindLanguageName(c, lang_config) ==
    LET hits == {i \in DOMAIN c.languages_iter : c.languages[c.languages_iter[i]] = lang_config}
    IN  IF hits = {} THEN "unknown"
        ELSE c.languages_iter[CHOOSE i \in hits : \A j \in hits : i <= j]

\* handlebars.register_template_file(path): Ok(text) when the file is there and parses.
register_template_file(files, path) ==
    IF path \in DOMAIN files /\ files[path].compiles THEN Some(files[path]) ELSE None

\* A plausible slip: template_file is looked at before template_path.
ResolveTemplate_template_file_first(c, lang_config, files) ==
    IF lang_config.template_file # None
    THEN LET template_path == <<c.generation.template_dir, lang_config.template_file[1]>> IN
         IF template_path \in DOMAIN files
         THEN register_template_file(files, template_path)
         ELSE get_built_in_template(lang_config.template_file[1])
    ELSE IF lang_config.template_path # None
    THEN register_template_file(files, <<lang_config.template_path[1]>>)
    ELSE LET lang_name == FindLanguageName(c, lang_config)
             ext == IF lang_config.output_extension # None
                    THEN lang_config.output_extension
                    ELSE get_default_output_extension(lang_name)
             auto_template_file == IF ext = None THEN None
                                   ELSE get_default_template_file(ext[1])
         IN  IF auto_template_file = None THEN None
             ELSE get_built_in_template(auto_template_file[1])

\* TemplateCodeGenerator::new, "Determine which template to use" (229-287):
\* Some(template registered as main_template), or None for Err.
ResolveTemplate(c, lang_config, files) ==
    IF lang_config.template_path # None
    THEN register_template_file(files, <<lang_config.template_path[1]>>)
    ELSE IF lang_config.template_file # None
    THEN LET template_path == <<c.generation.template_dir, lang_config.template_file[1]>> IN
         IF template_path \in DOMAIN files
         THEN register_template_file(files, template_path)
         ELSE get_built_in_template(lang_config.template_file[1])
    ELSE LET lang_name == FindLanguageName(c, lang_config)
             ext == IF lang_config.output_extension # None
                    THEN lang_config.output_extension
                    ELSE get_default_output_extension(lang_name)
             auto_template_file == IF ext = None THEN None
                                   ELSE get_default_template_file(ext[1])
         IN  IF auto_template_file = None THEN None
             ELSE get_built_in_template(auto_template_file[1])

\* self.handlebars.render("main_template", &template_data): Result<String>.
\* The text is determined by the template and the context.
Render(template, data) ==
    IF template.renders THEN Some([template |-> template.id, data |-> data]) ELSE None

(***************************************************************************)
(* The inputs of a run: configuration, schema and file system              *)
(***************************************************************************)
\* struct LanguageConfig (config.rs 54-71)
LanguageConfig(nullable_strategy, default_imports) ==
    [template_file |-> None, template_path |-> None, output_extension |-> None,
     struct_name_case |-> None, field_name_case |-> None,
     nullable_strategy |-> nullable_strategy, tags |-> None,
     default_imports |-> default_imports, field_prefix |-> None,
     package_name |-> None]

\* struct Config (config.rs 6-14), with the iteration order of the languages HashMap
Config(target_languages, languages, languages_iter, type_mappings, patterns) ==
    [generation |-> [output_dir |-> "generated", target_languages |-> target_languages,
                     template_dir |-> "templates", table_name_patterns |-> patterns,
                     output_structure |-> "by_language"],
     languages |-> languages,
     languages_iter |-> languages_iter,
     type_mappings |-> type_mappings,
     naming_conventions |-> [table_to_struct_case |-> "PascalCase",
                             column_to_field_case |-> "snake_case"]]

\* struct Column (ir/mod.rs 16-25)
Column(name, database_type, generic_type, is_nullable) ==
    [name |-> name, database_type |-> database_type, generic_type |-> generic_type,
     is_nullable |-> is_nullable, default_value |-> None, comment |-> None,
     is_primary_key |-> FALSE]

\* struct Table (ir/mod.rs 9-13)
Table(name, columns) == [name |-> name, columns |-> columns]

\* The file system the run starts with.
FileSystem(template_files, blocked_dirs, unwritable) ==
    [template_files |-> template_files, blocked_dirs |-> blocked_dirs,
     unwritable |-> unwritable, dirs |-> {}, files |-> EmptyMap]

LangNames ==
    {"go", "rust", "typescript", "csharp", "java", "python", "php", "ruby", "kotlin",
     "swift", "dart", "zig", "nim", "haskell", "ocaml", "elixir"}

Strategies ==
    {"pointer", "option", "nullable_type", "union", "optional_property",
     "optional_type", "native", "generic", "boxed"}

RecognizedStrategies ==
    {"pointer", "option", "nullable_type", "union", "optional_property",
     "optional_type", "native"}

GenericTypes == {"string", "integer", "float", "boolean", "datetime", "bytes"}

DbTypes == {"postgres", "mysql", "sqlite"}

\* type_mappings of a configuration file: overrides of built-in types, types for
\* languages the built-in table does not know, and one language left out per entry.
TypeMappings1 ==
    ("postgres" :>
        (  "int8" :> [generic |-> "integer",
                      language_types |-> ("go" :> s_int32 @@ "java" :> s_long)]
        @@ "float4" :> [generic |-> "float",
                        language_types |-> ("java" :> s_float)]
        @@ "uuid" :> [generic |-> "string",
                      language_types |-> ("python" :> s_UUID @@ "typescript" :> s_string)]
        @@ "timestamptz" :> [generic |-> "datetime",
                             language_types |-> ("go" :> s_time_Duration)]))
    @@
    ("mysql" :>
        (  "int8" :> [generic |-> "integer",
                      language_types |-> ("go" :> s_int @@ "python" :> s_int)]))

TypeMappingChoices == {EmptyMap, TypeMappings1}

n_users == <<"u", "s", "e", "r", "s">>

n_temp_users == <<"t", "e", "m", "p", "_", "u", "s", "e", "r", "s">>

n_id == <<"i", "d">>

n_email == <<"e", "m", "a", "i", "l">>

n_user_id == <<"u", "s", "e", "r", "_", "i", "d">>

n_UserId == <<"U", "s", "e", "r", "I", "d">>

n_created_at == <<"c", "r", "e", "a", "t", "e", "d", "_", "a", "t">>

\* (database_type, generic_type) pairs of a postgres schema, and one column whose
\* generic_type is outside the six categories.
ColumnKinds ==
    {<<"text", "string">>, <<"int8", "integer">>, <<"float4", "float">>,
     <<"bool", "boolean">>, <<"timestamp", "datetime">>, <<"timestamptz", "datetime">>,
     <<"bytea", "bytes">>, <<"json", "json">>, <<"uuid", "string">>}

DbColumnTypes == {k[1] : k \in ColumnKinds}

ColumnUniverse ==
    {Column(n_user_id, k[1], k[2], nullable) : k \in ColumnKinds, nullable \in BOOLEAN}

SingleLanguage(name, lang_config, type_mappings) ==
    Config(<<name>>, name :> lang_config, <<name>>, type_mappings, None)

Scenario(c, s, f) ==
    [cfg |-> c, db |-> [db_type |-> "postgres"], schema |-> s, fs |-> f]

PlainFileSystem == FileSystem(EmptyMap, {}, {})

\* Every language, every strategy, every kind of column: one table of one column.
TypeScenarios ==
    {Scenario(SingleLanguage(l, LanguageConfig(s, None), tm),
              [name |-> "app", tables |-> <<Table(n_users, <<col>>)>>],
              PlainFileSystem) :
        l \in LangNames, s \in Strategies, tm \in TypeMappingChoices, col \in ColumnUniverse}

MaxCols == 3

SeqsUpTo(S, n) == UNION {[1..k -> S] : k \in 0..n}

ImportChoices ==
    {None, Some(<<>>), Some(<<"fmt">>), Some(<<"fmt", "fmt">>),
     Some(<<"database/sql", "time">>), Some(<<"typing.Optional">>),
     Some(<<"time", "fmt", "time">>)}

ImportColumns ==
    {Column(n_created_at, "timestamp", "datetime", TRUE),
     Column(n_email, "text", "string", TRUE),
     Column(n_email, "bytea", "bytes", TRUE),
     Column(n_id, "int8", "integer", FALSE)}

\* Every sequence of up to MaxCols columns, every default_imports, for the
\* languages and strategies that register imports (and one that does not).
ImportScenarios ==
    {Scenario(SingleLanguage(l, LanguageConfig(s, imports), EmptyMap),
              [name |-> "app", tables |-> <<Table(n_users, cols)>>],
              PlainFileSystem) :
        l \in {"go", "python", "rust"}, s \in {"nullable_type", "optional_type"},
        imports \in ImportChoices, cols \in SeqsUpTo(ImportColumns, MaxCols)}

CaseChoices ==
    {None, Some("PascalCase"), Some("camelCase"), Some("snake_case"), Some("kebab-case"),
     Some("SCREAMING_SNAKE_CASE"), Some("Title Case"), Some("snake")}

NameChoices == {n_user_id, n_UserId, n_email, n_created_at, n_temp_users}

\* Every case identifier, recognized or not, on table and column names.
NamingScenarios ==
    {Scenario(SingleLanguage("go",
                  [LanguageConfig("generic", None) EXCEPT
                      !.struct_name_case = sc, !.field_name_case = fc,
                      !.field_prefix = prefix],
                  EmptyMap),
              [name |-> "app",
               tables |-> <<Table(tn, <<Column(cn, "text", "string", TRUE)>>)>>],
              PlainFileSystem) :
        sc \in CaseChoices, fc \in CaseChoices, prefix \in {None, Some(<<"m", "_">>)},
        tn \in {n_users, n_UserId}, cn \in NameChoices}

MaxLangs == 2

UsersSchema ==
    [name |-> "app",
     tables |-> <<Table(n_users, <<Column(n_id, "int8", "integer", FALSE),
                                    Column(n_email, "text", "string", TRUE)>>),
                  Table(n_temp_users, <<Column(n_id, "int8", "integer", FALSE)>>)>>]

PatternChoices ==
    {None, Some([include |-> <<<<"*">>>>, exclude |-> <<<<"t", "e", "m", "p", "_", "*">>>>])}

f_users_rs == <<"generated", <<"u", "s", "e", "r", "s", ".", "r", "s">>>>

FileSystemChoices ==
    {PlainFileSystem, FileSystem(EmptyMap, {"generated"}, {}),
     FileSystem(EmptyMap, {}, {f_users_rs})}

\* Runs over several target languages, with tables filtered out, a language that
\* has no entry in languages, and a file system that refuses a directory or a file.
RunScenarios ==
    {Scenario(Config(targets,
                     "go" :> LanguageConfig("pointer", None)
                        @@ "rust" :> LanguageConfig("option", None),
                     iter, EmptyMap, patterns),
              UsersSchema, f) :
        targets \in SeqsUpTo({"go", "rust", "lua"}, MaxLangs),
        iter \in {<<"go", "rust">>, <<"rust", "go">>},
        patterns \in PatternChoices, f \in FileSystemChoices}

\* Tag template strings of a configuration file: one that quotes the column name,
\* one with white space around it, one that renders to white space only, one that
\* renders to the bare column name, and one Handlebars cannot parse.
TagChoices ==
    {[kind |-> "column_name", pre |-> <<"j", "s", "o", "n", ":", "\"">>, post |-> <<"\"">>],
     [kind |-> "text", pre |-> <<" ", " ", "#", "[", "s", "e", "r", "d", "e", "(", "d", "e", "f", "a", "u", "l", "t", ")", "]", " ">>, post |-> <<>>],
     [kind |-> "text", pre |-> <<" ", " ", " ">>, post |-> <<>>],
     [kind |-> "column_name", pre |-> <<>>, post |-> <<>>],
     [kind |-> "invalid", pre |-> <<"{", "{", "#", "i", "f", "}">>, post |-> <<>>]}

MaxTags == 2

\* Every list of up to MaxTags tag templates, for the languages final_tags_string
\* names and one it does not.
TagScenarios ==
    {Scenario(SingleLanguage(l, [LanguageConfig("pointer", None) EXCEPT !.tags = tags],
                             EmptyMap),
              [name |-> "app",
               tables |-> <<Table(n_users, <<Column(n_email, "text", "string", FALSE)>>)>>],
              PlainFileSystem) :
        l \in {"go", "rust", "csharp", "java", "python", "php", "typescript", "ruby",
               "kotlin"},
        tags \in {None} \cup {Some(t) : t \in SeqsUpTo(TagChoices, MaxTags)}}

\* Template files on disk: a custom template and files under template_dir, one of
\* them under the name of a built-in template; the same files with texts
\* Handlebars cannot parse; a file that parses and fails when it is rendered.
TemplateFileChoices ==
    {EmptyMap,
     (<<"custom/model.hbs">> :> TemplateText(<<"file", "custom/model.hbs">>, TRUE, TRUE))
        @@ (<<"templates", "my.hbs">> :> TemplateText(<<"file", "my.hbs">>, TRUE, TRUE))
        @@ (<<"templates", "go_struct.hbs">> :>
                TemplateText(<<"file", "go_struct.hbs">>, TRUE, TRUE)),
     (<<"custom/model.hbs">> :> TemplateText(<<"file", "custom/model.hbs">>, FALSE, FALSE))
        @@ (<<"templates", "my.hbs">> :> TemplateText(<<"file", "my.hbs">>, FALSE, FALSE)),
     (<<"templates", "my.hbs">> :> TemplateText(<<"file", "my.hbs">>, TRUE, FALSE))}

\* Every combination of template_path, template_file and output_extension, for a
\* language with a default extension and one without, over every set of files.
TemplateScenarios ==
    {Scenario(SingleLanguage(l, [LanguageConfig("pointer", None) EXCEPT
                                    !.template_path = tp, !.template_file = tf,
                                    !.output_extension = ext],
                             EmptyMap),
              [name |-> "app",
               tables |-> <<Table(n_users, <<Column(n_id, "int8", "integer", FALSE)>>)>>],
              FileSystem(files, {}, {})) :
        l \in {"go", "lua"},
        tp \in {None, Some("custom/model.hbs"), Some("custom/missing.hbs")},
        tf \in {None, Some("go_struct.hbs"), Some("rust_struct.hbs"), Some("my.hbs"),
                Some("nope.hbs")},
        ext \in {None, Some(<<"r", "s">>), Some(<<".", "g", "o">>), Some(<<"t", "x", "t">>)},
        files \in TemplateFileChoices}

\* table_name_patterns of a configuration file: every pairing of a list of include
\* patterns with a list of exclude patterns.
FilterChoices ==
    {Some([include |-> inc, exclude |-> exc]) :
        inc \in {<<>>, <<<<"*">>>>, <<<<"u", "s", "e", "r", "s">>>>, <<<<"t", "e", "m", "p", "_", "*">>>>, <<<<"*", "_", "l", "o", "g", "s">>, <<"u", "s", "e", "r", "*">>>>},
        exc \in {<<>>, <<<<"t", "e", "m", "p", "_", "*">>>>, <<<<"*">>>>, <<<<"*", "u", "s", "e", "r", "s">>>>, <<<<"*", "e", "m", "p", "*">>, <<"u", "s", "e", "r", "s">>>>}}

\* One language over the tables users and temp_users, for every filter.
FilterScenarios ==
    {Scenario(Config(<<"go">>, "go" :> LanguageConfig("pointer", None), <<"go">>,
                     EmptyMap, patterns),
              UsersSchema, PlainFileSystem) :
        patterns \in FilterChoices}

\* Two tables whose names have the same snake_case form, and two languages that
\* share an output extension.
CollisionScenarios ==
    {Scenario(SingleLanguage("go", LanguageConfig("pointer", None), EmptyMap),
              [name |-> "app",
               tables |-> <<Table(n_UserId, <<Column(n_id, "int8", "integer", FALSE)>>),
                            Table(n_user_id, <<Column(n_email, "text", "string", TRUE)>>)>>],
              PlainFileSystem),
     Scenario(Config(<<"go", "gorm">>,
                     "go" :> LanguageConfig("pointer", None)
                        @@ "gorm" :> [LanguageConfig("nullable_type", None) EXCEPT
                                         !.template_file = Some("go_struct.hbs"),
                                         !.output_extension = Some(<<"g", "o">>)],
                     <<"go", "gorm">>, EmptyMap, None),
              UsersSchema, PlainFileSystem)}

\* Two entries of languages that hold equal LanguageConfig values, as rust and nim
\* do in the configuration file init_config writes (main.rs 224-279), under both
\* iteration orders of the languages HashMap.
EqualConfigScenarios ==
    {Scenario(Config(targets,
                     "rust" :> LanguageConfig("option", None)
                        @@ "nim" :> LanguageConfig("option", None),
                     iter, EmptyMap, None),
              UsersSchema, PlainFileSystem) :
        targets \in {<<"rust">>, <<"nim">>, <<"rust", "nim">>},
        iter \in {<<"rust", "nim">>, <<"nim", "rust">>}}

\* The schema of one table users (id: integer, non-null, primary key; email:
\* string, nullable), no type mappings, go with pointer and rust with option.
EndToEndScenarios ==
    {Scenario(Config(<<l>>,
                     "go" :> LanguageConfig("pointer", None)
                        @@ "rust" :> LanguageConfig("option", None),
                     <<"go", "rust">>, EmptyMap, None),
              [name |-> "app",
               tables |-> <<Table(n_users,
                                  <<[Column(n_id, "int8", "integer", FALSE) EXCEPT
                                        !.is_primary_key = TRUE],
                                    Column(n_email, "text", "string", TRUE)>>)>>],
              PlainFileSystem) :
        l \in {"go", "rust"}}

\* Two tables of which one has a nullable column that registers an import, in
\* both orders, with and without default imports.
TwoTableImportScenarios ==
    {Scenario(SingleLanguage(l[1], LanguageConfig(l[2], imports), EmptyMap),
              [name |-> "app", tables |-> tables],
              PlainFileSystem) :
        l \in {<<"go", "nullable_type">>, <<"python", "optional_type">>},
        imports \in {None, Some(<<"fmt">>)},
        tables \in {UsersSchema.tables, <<UsersSchema.tables[2], UsersSchema.tables[1]>>}}

Scenarios ==
    TypeScenarios \cup ImportScenarios \cup NamingScenarios \cup RunScenarios
        \cup TagScenarios \cup TemplateScenarios \cup FilterScenarios
        \cup CollisionScenarios \cup EqualConfigScenarios \cup EndToEndScenarios
        \cup TwoTableImportScenarios

(***************************************************************************)
(* The run: main's loop over the target languages (main.rs 150-169) and    *)
(* TemplateCodeGenerator::new / generate_code                              *)
(***************************************************************************)
Init ==
    \E sc \in Scenarios :
        /\ cfg = sc.cfg
        /\ active_db_config = sc.db
        /\ schema = sc.schema
        /\ fs = sc.fs
        /\ pc = "main"
        /\ lang_idx = 1
        /\ generator = None
        /\ lang_name_for_mapping = ""
        /\ output_extension = <<>>
        /\ table_idx = 0
        /\ column_idx = 0
        /\ template_data = None
        /\ columns_data_for_template = <<>>
        /\ raw_lang_type = <<>>
        /\ dynamic_imports = <<>>
        /\ stdout = <<>>
        /\ error = None
        /\ call = None

TargetLanguage == cfg.generation.target_languages[lang_idx]

\* A plausible slip: the tables are visited from the last to the first.
CurrentTable_reverse_order == schema.tables[Len(schema.tables) + 1 - table_idx]

CurrentTable == schema.tables[table_idx]

CurrentColumn == CurrentTable.columns[column_idx]

Fail(message) ==
    /\ pc' = "failed"
    /\ error' = Some(message)

\* A plausible slip: a target language without an entry in languages is passed
\* over and the loop goes on with the next one.
MainLoop_skips_missing ==
    /\ pc = "main"
    /\ IF lang_idx > Len(cfg.generation.target_languages)
       THEN /\ pc' = "done"
            /\ stdout' = Append(stdout, <<"Code generation complete!">>)
            /\ UNCHANGED <<generator, error, lang_idx>>
       ELSE LET lang_cfg == MapGet(cfg.languages, TargetLanguage) IN
            IF lang_cfg = None
            THEN /\ lang_idx' = lang_idx + 1
                 /\ UNCHANGED <<pc, error, generator, stdout>>
            ELSE /\ pc' = "new"
                 /\ stdout' = Append(stdout, <<"Generating code for language", TargetLanguage>>)
                 /\ generator' = [lang_config |-> lang_cfg[1], handlebars |-> None]
                 /\ UNCHANGED <<error, lang_idx>>
    /\ UNCHANGED <<cfg, active_db_config, schema, fs, lang_name_for_mapping,
                   output_extension, table_idx, column_idx, template_data,
                   columns_data_for_template, raw_lang_type, dynamic_imports, call>>

\* main.rs 150-158: the head of the loop over target_languages, and line 169.
MainLoop ==
    /\ pc = "main"
    /\ IF lang_idx > Len(cfg.generation.target_languages)
       THEN /\ pc' = "done"
            /\ stdout' = Append(stdout, <<"Code generation complete!">>)
            /\ UNCHANGED <<generator, error>>
       ELSE LET lang_cfg == MapGet(cfg.languages, TargetLanguage) IN
            IF lang_cfg = None
            THEN /\ Fail("Language config not found in config.languages")
                 /\ UNCHANGED <<generator, stdout>>
            ELSE /\ pc' = "new"
                 /\ stdout' = Append(stdout, <<"Generating code for language", TargetLanguage>>)
                 /\ generator' = [lang_config |-> lang_cfg[1], handlebars |-> None]
                 /\ UNCHANGED error
    /\ UNCHANGED <<cfg, active_db_config, schema, fs, lang_idx, lang_name_for_mapping,
                   output_extension, table_idx, column_idx, template_data,
                   columns_data_for_template, raw_lang_type, dynamic_imports, call>>

\* A plausible slip: the template is registered, and resolved and compiled again
\* before generate_code is called.
New_resolves_twice ==
    /\ pc = "new"
    /\ LET template == ResolveTemplate(cfg, generator.lang_config, fs.template_files) IN
       IF template = None
       THEN /\ Fail("Failed to load template")
            /\ UNCHANGED generator
       ELSE /\ pc' = IF generator.handlebars = None THEN "new" ELSE "generate"
            /\ generator' = [generator EXCEPT !.handlebars = template]
            /\ UNCHANGED error
    /\ UNCHANGED <<cfg, active_db_config, schema, fs, lang_idx, lang_name_for_mapping,
                   output_extension, table_idx, column_idx, template_data,
                   columns_data_for_template, raw_lang_type, dynamic_imports, stdout, call>>

\* TemplateCodeGenerator::new (22-295): main_template is registered, or Err.
New ==
    /\ pc = "new"
    /\ LET template == ResolveTemplate(cfg, generator.lang_config, fs.template_files) IN
       IF template = None
       THEN /\ Fail("Failed to load template")
            /\ UNCHANGED generator
       ELSE /\ pc' = "generate"
            /\ generator' = [generator EXCEPT !.handlebars = template]
            /\ UNCHANGED error
    /\ UNCHANGED <<cfg, active_db_config, schema, fs, lang_idx, lang_name_for_mapping,
                   output_extension, table_idx, column_idx, template_data,
                   columns_data_for_template, raw_lang_type, dynamic_imports, stdout, call>>

\* A plausible slip: the output directory is created before the extension is
\* determined.
GenerateCodeBegin_creates_dir_first ==
    /\ pc = "generate"
    /\ LET name == FindLanguageName(cfg, generator.lang_config)
           ext  == IF generator.lang_config.output_extension # None
                   THEN generator.lang_config.output_extension
                   ELSE get_default_output_extension(name)
       IN  /\ lang_name_for_mapping' = name
           /\ IF cfg.generation.output_dir \in fs.blocked_dirs
              THEN /\ Fail("Failed to create output directory")
                   /\ UNCHANGED <<fs, table_idx, output_extension>>
              ELSE /\ fs' = [fs EXCEPT !.dirs = @ \cup {cfg.generation.output_dir}]
                   /\ IF ext = None
                      THEN /\ Fail("Unknown language")
                           /\ UNCHANGED <<output_extension, table_idx>>
                      ELSE /\ output_extension' = ext[1]
                           /\ table_idx' = 1
                           /\ pc' = "table"
                           /\ UNCHANGED error
    /\ UNCHANGED <<cfg, active_db_config, schema, lang_idx, generator, column_idx,
                   template_data, columns_data_for_template, raw_lang_type,
                   dynamic_imports, stdout, call>>

\* generate_code 297-315: the language name, the extension, the output directory.
GenerateCodeBegin ==
    /\ pc = "generate"
    /\ LET name == FindLanguageName(cfg, generator.lang_config)
           ext  == IF generator.lang_config.output_extension # None
                   THEN generator.lang_config.output_extension
                   ELSE get_default_output_extension(name)
       IN  /\ lang_name_for_mapping' = name
           /\ IF ext = None
              THEN /\ Fail("Unknown language")
                   /\ UNCHANGED <<output_extension, fs, table_idx>>
              ELSE /\ output_extension' = ext[1]
                   /\ IF cfg.generation.output_dir \in fs.blocked_dirs
                      THEN /\ Fail("Failed to create output directory")
                           /\ UNCHANGED <<fs, table_idx>>
                      ELSE /\ fs' = [fs EXCEPT !.dirs = @ \cup {cfg.generation.output_dir}]
                           /\ table_idx' = 1
                           /\ pc' = "table"
                           /\ UNCHANGED error
    /\ UNCHANGED <<cfg, active_db_config, schema, lang_idx, generator, column_idx,
                   template_data, columns_data_for_template, raw_lang_type,
                   dynamic_imports, stdout, call>>

\* The json! context of a table (333-346).
TemplateData(c, lang_config, lang, table) ==
    [StructName |-> StructName(c, lang_config, table),
     TableName |-> table.name,
     PackageName |-> IF lang_config.package_name # None
                     THEN lang_config.package_name[1] ELSE "models",
     Columns |-> <<>>,
     Imports |-> IF lang_config.default_imports # None
                 THEN lang_config.default_imports[1] ELSE <<>>,
     CurrentLanguage |-> lang,
     Config |-> [nullable_strategy |-> lang_config.nullable_strategy,
                 field_prefix |-> lang_config.field_prefix,
                 struct_name_case |-> lang_config.struct_name_case,
                 field_name_case |-> lang_config.field_name_case]]

\* A plausible slip: dynamic_imports is declared outside the loop over the tables,
\* so the imports registered for one table are still there for the next.
TableLoop_keeps_imports ==
    /\ pc = "table"
    /\ IF table_idx > Len(schema.tables)
       THEN /\ pc' = "main"
            /\ lang_idx' = lang_idx + 1
            /\ UNCHANGED <<table_idx, column_idx, template_data,
                           columns_data_for_template, stdout>>
       ELSE IF ~should_include_table(cfg, CurrentTable.name)
       THEN /\ stdout' = Append(stdout, <<"Skipping table", CurrentTable.name>>)
            /\ table_idx' = table_idx + 1
            /\ UNCHANGED <<pc, lang_idx, column_idx, template_data,
                           columns_data_for_template>>
       ELSE /\ template_data' = TemplateData(cfg, generator.lang_config,
                                             lang_name_for_mapping, CurrentTable)
            /\ columns_data_for_template' = <<>>
            /\ column_idx' = 1
            /\ pc' = "column"
            /\ UNCHANGED <<lang_idx, table_idx, stdout>>
    /\ UNCHANGED <<cfg, active_db_config, schema, fs, generator, lang_name_for_mapping,
                   output_extension, raw_lang_type, error, call, dynamic_imports>>

\* generate_code 317-348: the head of the loop over schema.tables; when the loop
\* ends generate_code returns Ok and main goes on to the next language (164-167).
TableLoop ==
    /\ pc = "table"
    /\ IF table_idx > Len(schema.tables)
       THEN /\ pc' = "main"
            /\ lang_idx' = lang_idx + 1
            /\ UNCHANGED <<table_idx, column_idx, template_data,
                           columns_data_for_template, dynamic_imports, stdout>>
       ELSE IF ~should_include_table(cfg, CurrentTable.name)
       THEN /\ stdout' = Append(stdout, <<"Skipping table", CurrentTable.name>>)
            /\ table_idx' = table_idx + 1
            /\ UNCHANGED <<pc, lang_idx, column_idx, template_data,
                           columns_data_for_template, dynamic_imports>>
       ELSE /\ template_data' = TemplateData(cfg, generator.lang_config,
                                             lang_name_for_mapping, CurrentTable)
            /\ columns_data_for_template' = <<>>
            /\ dynamic_imports' = <<>>
            /\ column_idx' = 1
            /\ pc' = "column"
            /\ UNCHANGED <<lang_idx, table_idx, stdout>>
    /\ UNCHANGED <<cfg, active_db_config, schema, fs, generator, lang_name_for_mapping,
                   output_extension, raw_lang_type, error, call>>

\* generate_code 350-612: one column of the table.
ProcessColumn ==
    /\ pc = "column"
    /\ column_idx <= Len(CurrentTable.columns)
    /\ LET column == CurrentColumn
           lang_config == generator.lang_config
           raw == raw_lang_type_of(cfg, active_db_config.db_type, column,
                                   lang_name_for_mapping)
           effective == EffectiveLangType(raw.t, column.is_nullable,
                                          lang_config.nullable_strategy,
                                          lang_name_for_mapping, dynamic_imports)
           tags == ColumnTags(lang_config, column)
       IN  /\ raw_lang_type' = raw.t
           /\ stdout' = stdout \o raw.warning
           /\ dynamic_imports' = effective.imports
           /\ columns_data_for_template' =
                 Append(columns_data_for_template,
                        [FieldName |-> FieldName(cfg, lang_config, column),
                         LangType |-> effective.t,
                         LangTags |-> final_tags_string(lang_name_for_mapping, tags),
                         IsNullable |-> column.is_nullable,
                         OriginalColumnName |-> column.name,
                         ColumnComment |-> column.comment,
                         DefaultValue |-> column.default_value,
                         IsPrimaryKey |-> column.is_primary_key])
    /\ column_idx' = column_idx + 1
    /\ UNCHANGED <<cfg, active_db_config, schema, fs, pc, lang_idx, generator,
                   lang_name_for_mapping, output_extension, table_idx, template_data,
                   error, call>>

\* A plausible slip: the registered imports are appended without the contains check.
MergeImports_no_check(current_imports_vec, imports) == current_imports_vec \o imports

\* for imp in dynamic_imports { if !current_imports_vec.contains(&imp) { push } } (621-625)
RECURSIVE MergeImports(_, _)
MergeImports(current_imports_vec, imports) ==
    IF imports = <<>> THEN current_imports_vec
    ELSE MergeImports(IF ~vec_contains(current_imports_vec, Head(imports))
                      THEN Append(current_imports_vec, Head(imports))
                      ELSE current_imports_vec,
                      Tail(imports))

\* output_dir.join(format!("{}.{}", table.name.to_snake_case(), output_extension)) (633-637)
OutputFilePath(output_dir, table, ext) ==
    <<output_dir, to_snake_case(table.name) \o <<".">> \o ext>>

\* fs::write: the file is created or replaced.
WriteFile(files, path, content) ==
    [p \in DOMAIN files \cup {path} |-> IF p = path THEN content ELSE files[p]]

\* A plausible slip: a table whose rendering or writing fails is passed over and
\* the loop goes on with the next table.
FinishTable_skips_failed_table ==
    /\ pc = "column"
    /\ column_idx > Len(CurrentTable.columns)
    /\ LET data == [template_data EXCEPT
                       !.Columns = columns_data_for_template,
                       !.Imports = MergeImports(template_data.Imports, dynamic_imports)]
           rendered == Render(generator.handlebars[1], data)
           path == OutputFilePath(cfg.generation.output_dir, CurrentTable, output_extension)
       IN  /\ template_data' = data
           /\ table_idx' = table_idx + 1
           /\ pc' = "table"
           /\ IF rendered = None \/ path \in fs.unwritable
              THEN UNCHANGED <<fs, stdout>>
              ELSE /\ fs' = [fs EXCEPT !.files = WriteFile(@, path, rendered[1])]
                   /\ stdout' = Append(stdout, <<"Generated", path>>)
    /\ UNCHANGED <<cfg, active_db_config, schema, lang_idx, generator,
                   lang_name_for_mapping, output_extension, column_idx,
                   columns_data_for_template, raw_lang_type, dynamic_imports, call, error>>

\* generate_code 613-641: the context is completed, rendered and written.
FinishTable ==
    /\ pc = "column"
    /\ column_idx > Len(CurrentTable.columns)
    /\ LET data == [template_data EXCEPT
                       !.Columns = columns_data_for_template,
                       !.Imports = MergeImports(template_data.Imports, dynamic_imports)]
           rendered == Render(generator.handlebars[1], data)
           path == OutputFilePath(cfg.generation.output_dir, CurrentTable, output_extension)
       IN  /\ template_data' = data
           /\ IF rendered = None
              THEN /\ Fail("Failed to render template for table")
                   /\ UNCHANGED <<fs, stdout, table_idx>>
              ELSE IF path \in fs.unwritable
              THEN /\ Fail("Failed to write file")
                   /\ UNCHANGED <<fs, stdout, table_idx>>
              ELSE /\ fs' = [fs EXCEPT !.files = WriteFile(@, path, rendered[1])]
                   /\ stdout' = Append(stdout, <<"Generated", path>>)
                   /\ table_idx' = table_idx + 1
                   /\ pc' = "table"
                   /\ UNCHANGED error
    /\ UNCHANGED <<cfg, active_db_config, schema, lang_idx, generator,
                   lang_name_for_mapping, output_extension, column_idx,
                   columns_data_for_template, raw_lang_type, dynamic_imports, call>>

Next ==
    \/ MainLoop
    \/ New
    \/ GenerateCodeBegin
    \/ TableLoop
    \/ ProcessColumn
    \/ FinishTable

Spec == Init /\ [][Next]_vars

(***************************************************************************)
(* The init command: main's dispatch (main.rs 65-69) and init_config       *)
(***************************************************************************)
\* The text of the default configuration (main.rs 186-279).
default_config == "# Database Code Generator Configuration ..."

\* codegen model --init -c <path>, started on a file system where each of three
\* paths is free, a file (empty, edited by the user, or the default text) or a
\* directory, and where the path given may refuse to be written.
InitCli ==
    \E config_path \in {<<"codegen.yaml">>, <<"app.yaml">>, <<"config/dev.yaml">>} :
    \E present \in SUBSET {<<"codegen.yaml">>, <<"app.yaml">>, <<"config/dev.yaml">>} :
    \E texts \in [present -> {"", "active_database: prod ...", default_config}] :
    \E dirs \in {{}} \cup {{d} : d \in {<<"codegen.yaml">>, <<"app.yaml">>, <<"config/dev.yaml">>} \ present} :
    \E unwritable \in {{}, {config_path}} :
        /\ call = Some([fn |-> "model", init |-> TRUE, config |-> config_path])
        /\ fs = [template_files |-> EmptyMap, blocked_dirs |-> {}, unwritable |-> unwritable,
                 dirs |-> dirs, files |-> texts]
        /\ cfg = Config(<<>>, EmptyMap, <<>>, EmptyMap, None)
        /\ active_db_config = [db_type |-> "postgres"]
        /\ schema = [name |-> "", tables |-> <<>>]
        /\ pc = "start"
        /\ lang_idx = 1
        /\ generator = None
        /\ lang_name_for_mapping = ""
        /\ output_extension = <<>>
        /\ table_idx = 0
        /\ column_idx = 0
        /\ template_data = None
        /\ columns_data_for_template = <<>>
        /\ raw_lang_type = <<>>
        /\ dynamic_imports = <<>>
        /\ stdout = <<>>
        /\ error = None

\* A plausible slip: the default configuration is written without looking for an
\* existing file.
init_config_overwrites ==
    /\ pc = "start"
    /\ call[1].init
    /\ LET config_path == call[1].config IN
       IF config_path \in fs.unwritable \/ config_path \in fs.dirs
       THEN /\ Fail("Failed to write config file")
            /\ UNCHANGED <<fs, stdout>>
       ELSE /\ fs' = [fs EXCEPT !.files = WriteFile(@, config_path, default_config)]
            /\ stdout' = stdout \o << <<"Created default configuration file", config_path>>,
                                      <<"Please edit the file">>,
                                      <<"Run 'codegen model -c' to generate code", config_path>> >>
            /\ pc' = "done"
            /\ UNCHANGED error
    /\ UNCHANGED <<cfg, active_db_config, schema, lang_idx, generator,
                   lang_name_for_mapping, output_extension, table_idx, column_idx,
                   template_data, columns_data_for_template, raw_lang_type,
                   dynamic_imports, call>>

\* main.rs 65-69: if args.init { return init_config(&args.config).await; }
\* init_config (main.rs 176-297): bail! when config_path.exists(), else fs::write
\* of the default configuration and three lines on stdout.
init_config ==
    /\ pc = "start"
    /\ call[1].init
    /\ LET config_path == call[1].config IN
       IF config_path \in DOMAIN fs.files \/ config_path \in fs.dirs
       THEN /\ Fail("Configuration file already exists")
            /\ UNCHANGED <<fs, stdout>>
       ELSE IF config_path \in fs.unwritable
       THEN /\ Fail("Failed to write config file")
            /\ UNCHANGED <<fs, stdout>>
       ELSE /\ fs' = [fs EXCEPT !.files = WriteFile(@, config_path, default_config)]
            /\ stdout' = stdout \o << <<"Created default configuration file", config_path>>,
                                      <<"Please edit the file">>,
                                      <<"Run 'codegen model -c' to generate code", config_path>> >>
            /\ pc' = "done"
            /\ UNCHANGED error
    /\ UNCHANGED <<cfg, active_db_config, schema, lang_idx, generator,
                   lang_name_for_mapping, output_extension, table_idx, column_idx,
                   template_data, columns_data_for_template, raw_lang_type,
                   dynamic_imports, call>>

NextCli == init_config

SpecCli == InitCli /\ [][NextCli]_vars

(***************************************************************************)
(* Config::get_language_type applied to every input                        *)
(***************************************************************************)
InitTypes ==
    /\ cfg \in {Config(<<>>, EmptyMap, <<>>, tm, None) : tm \in TypeMappingChoices}
    /\ active_db_config = [db_type |-> "postgres"]
    /\ schema = [name |-> "app", tables |-> <<>>]
    /\ fs = PlainFileSystem
    /\ pc = "idle"
    /\ lang_idx = 1
    /\ generator = None
    /\ lang_name_for_mapping = ""
    /\ output_extension = <<>>
    /\ table_idx = 0
    /\ column_idx = 0
    /\ template_data = None
    /\ columns_data_for_template = <<>>
    /\ raw_lang_type = <<>>
    /\ dynamic_imports = <<>>
    /\ stdout = <<>>
    /\ error = None
    /\ call = None

CallGetLanguageType ==
    /\ pc = "idle"
    /\ pc' = "returned"
    /\ \E db_type \in DbTypes, db_column_type \in DbColumnTypes,
          generic_type \in GenericTypes \cup {"json", "uuid"}, lang \in LangNames :
          call' = Some([db_type |-> db_type, db_column_type |-> db_column_type,
                        generic_type |-> generic_type, lang |-> lang,
                        result |-> get_language_type(cfg, db_type, db_column_type,
                                                     generic_type, lang)])
    /\ UNCHANGED <<cfg, active_db_config, schema, fs, lang_idx, generator,
                   lang_name_for_mapping, output_extension, table_idx, column_idx,
                   template_data, columns_data_for_template, raw_lang_type,
                   dynamic_imports, stdout, error>>

NextTypes == CallGetLanguageType

SpecTypes == InitTypes /\ [][NextTypes]_vars

(***************************************************************************)
(* matches_pattern and apply_case_conversion applied to every input        *)
(***************************************************************************)
MaxPatternLen == 3

MaxIdentLen == 3

InitPure ==
    /\ cfg = Config(<<>>, EmptyMap, <<>>, EmptyMap, None)
    /\ active_db_config = [db_type |-> "postgres"]
    /\ schema = [name |-> "app", tables |-> <<>>]
    /\ fs = PlainFileSystem
    /\ pc = "idle"
    /\ lang_idx = 1
    /\ generator = None
    /\ lang_name_for_mapping = ""
    /\ output_extension = <<>>
    /\ table_idx = 0
    /\ column_idx = 0
    /\ template_data = None
    /\ columns_data_for_template = <<>>
    /\ raw_lang_type = <<>>
    /\ dynamic_imports = <<>>
    /\ stdout = <<>>
    /\ error = None
    /\ call = None

\* matches_pattern(text, pattern) for every text and every pattern, with and
\* without wildcards (a text may hold the character '*' too), up to MaxPatternLen
\* characters.
CallMatchesPattern ==
    /\ pc = "idle"
    /\ pc' = "returned"
    /\ \E text \in SeqsUpTo({"a", "b", "*"}, MaxPatternLen),
          pattern \in SeqsUpTo({"a", "b", "*"}, MaxPatternLen) :
          call' = Some([fn |-> "matches_pattern", text |-> text, pattern |-> pattern,
                        result |-> matches_pattern(text, pattern)])
    /\ UNCHANGED <<cfg, active_db_config, schema, fs, lang_idx, generator,
                   lang_name_for_mapping, output_extension, table_idx, column_idx,
                   template_data, columns_data_for_template, raw_lang_type,
                   dynamic_imports, stdout, error>>

\* apply_case_conversion(input, case_type), and the same conversion applied to its
\* result, for the names of the schemas above and every identifier of letters,
\* digits and underscores up to MaxIdentLen characters.
CallApplyCaseConversion ==
    /\ pc = "idle"
    /\ pc' = "returned"
    /\ \E input \in NameChoices \cup SeqsUpTo({"a", "B", "_", "2"}, MaxIdentLen),
          case_type \in {c[1] : c \in CaseChoices \ {None}} :
          LET result == apply_case_conversion(input, case_type) IN
          call' = Some([fn |-> "apply_case_conversion", input |-> input,
                        case_type |-> case_type, result |-> result,
                        again |-> apply_case_conversion(result, case_type)])
    /\ UNCHANGED <<cfg, active_db_config, schema, fs, lang_idx, generator,
                   lang_name_for_mapping, output_extension, table_idx, column_idx,
                   template_data, columns_data_for_template, raw_lang_type,
                   dynamic_imports, stdout, error>>

NextPure ==
    \/ CallMatchesPattern
    \/ CallApplyCaseConversion

SpecPure == InitPure /\ [][NextPure]_vars

(***************************************************************************)
(* Properties of get_language_type (specification SpecTypes)               *)
(***************************************************************************)
Returned == pc = "returned"

IsConfigured(c, db_type, db_column_type, lang) ==
    /\ db_type \in DOMAIN c.type_mappings
    /\ db_column_type \in DOMAIN c.type_mappings[db_type]
    /\ lang \in DOMAIN c.type_mappings[db_type][db_column_type].language_types

\* C1: whenever type_mappings[db_type][db_column_type].language_types[language] is
\* configured, get_language_type returns exactly that string, whatever generic_type
\* is and whatever the built-in table holds for (language, generic_type).
C1_ConfiguredMappingWins ==
    Returned =>
        LET a == call[1] IN
        IsConfigured(cfg, a.db_type, a.db_column_type, a.lang) =>
            a.result = Some(cfg.type_mappings[a.db_type][a.db_column_type]
                                .language_types[a.lang])

\* A call where the configured type and the built-in type for the same language
\* and generic_type differ, and the configured one is returned.
C1_Witness ==
    /\ Returned
    /\ IsConfigured(cfg, call[1].db_type, call[1].db_column_type, call[1].lang)
    /\ call[1].lang = "go"
    /\ call[1].generic_type = "integer"
    /\ call[1].db_type = "postgres"
    /\ call[1].result = Some(s_int32)

BuiltInLanguages == {"go", "rust", "typescript", "csharp", "java"}

\* C2: with no configured mapping for the column, get_language_type returns the
\* built-in type for every language of {go, rust, typescript, csharp, java} and
\* every generic_type of {string, integer, float, boolean, datetime, bytes} (go/integer
\* is int64, rust/string is String, go/datetime is time.Time), and None for every
\* other language or generic_type.
C2_BuiltInTable ==
    Returned =>
        LET a == call[1] IN
        ~IsConfigured(cfg, a.db_type, a.db_column_type, a.lang) =>
            /\ (a.lang \in BuiltInLanguages /\ a.generic_type \in GenericTypes)
                  => (a.result # None /\ a.result = BuiltInType(a.lang, a.generic_type))
            /\ (a.lang \notin BuiltInLanguages \/ a.generic_type \notin GenericTypes)
                  => a.result = None
            /\ (a.lang = "go" /\ a.generic_type = "integer") => a.result = Some(s_int64)
            /\ (a.lang = "rust" /\ a.generic_type = "string") => a.result = Some(s_String)
            /\ (a.lang = "go" /\ a.generic_type = "datetime") => a.result = Some(s_time_Time)

\* A call with no configured mapping that the built-in table answers, in a
\* configuration that has mappings for other columns.
C2_Witness ==
    /\ Returned
    /\ cfg.type_mappings = TypeMappings1
    /\ ~IsConfigured(cfg, call[1].db_type, call[1].db_column_type, call[1].lang)
    /\ call[1].lang = "java"
    /\ call[1].generic_type = "bytes"
    /\ call[1].result = Some(s_byte_arr)

\* type_mappings has an entry for (db_type, db_column_type).
HasEntry(c, db_type, db_column_type) ==
    /\ db_type \in DOMAIN c.type_mappings
    /\ db_column_type \in DOMAIN c.type_mappings[db_type]

\* The configuration with the generic field of that entry replaced by g.
WithGeneric(c, db_type, db_column_type, g) ==
    [c EXCEPT !.type_mappings[db_type][db_column_type].generic = g]

\* C29: when type_mappings has an entry for (db_type, db_column_type) that lists
\* no type for the target language, resolution falls through to the built-in
\* table keyed by the generic_type of the call (the column's own); the entry's
\* generic field is never consulted, so the result is the same whatever that
\* field holds and equals the result with no entry at all.
C29_EntryWithoutLanguageFallsThrough ==
    Returned =>
        LET a == call[1] IN
        (HasEntry(cfg, a.db_type, a.db_column_type)
            /\ ~IsConfigured(cfg, a.db_type, a.db_column_type, a.lang)) =>
            /\ a.result = BuiltInType(a.lang, a.generic_type)
            /\ a.result = get_language_type([cfg EXCEPT !.type_mappings = EmptyMap],
                                            a.db_type, a.db_column_type,
                                            a.generic_type, a.lang)
            /\ \A g \in GenericTypes :
                  a.result = get_language_type(
                                 WithGeneric(cfg, a.db_type, a.db_column_type, g),
                                 a.db_type, a.db_column_type, a.generic_type, a.lang)

\* The entry for postgres int8 says generic integer and lists no type for rust;
\* the call for a column whose generic_type is string returns String, not i64.
C29_Witness ==
    /\ Returned
    /\ HasEntry(cfg, "postgres", "int8")
    /\ cfg.type_mappings["postgres"]["int8"].generic = "integer"
    /\ call[1].db_type = "postgres"
    /\ call[1].db_column_type = "int8"
    /\ call[1].lang = "rust"
    /\ call[1].generic_type = "string"
    /\ call[1].result = Some(s_String)

(***************************************************************************)
(* Properties of generate_code (specification Spec)                        *)
(***************************************************************************)
\* A step of ProcessColumn: the column at column_idx is resolved.
ColumnStep ==
    /\ pc = "column"
    /\ column_idx <= Len(CurrentTable.columns)
    /\ column_idx' = column_idx + 1

\* A step of FinishTable: the context is completed and handed to the template.
FinishStep ==
    /\ pc = "column"
    /\ column_idx > Len(CurrentTable.columns)
    /\ pc' # "column"

\* The record ProcessColumn appends.
NewRecord == columns_data_for_template'[Len(columns_data_for_template')]

\* The column and the record of the last ProcessColumn step.
ColumnResolved == pc = "column" /\ column_idx > 1

LastColumn == CurrentTable.columns[column_idx - 1]

LastRecord == columns_data_for_template[column_idx - 1]

Strategy == generator.lang_config.nullable_strategy

NoMapping(column) ==
    get_language_type(cfg, active_db_config.db_type, column.database_type,
                      column.generic_type, lang_name_for_mapping) = None

CatchAllType(lang) ==
    IF lang \in {"rust", "java", "ruby"} THEN <<"S", "t", "r", "i", "n", "g">>
    ELSE IF lang \in {"typescript", "csharp", "go", "php"} THEN <<"s", "t", "r", "i", "n", "g">>
    ELSE IF lang = "python" THEN <<"s", "t", "r">>
    ELSE <<"a", "n", "y">>

\* C3: when neither a configured mapping nor the built-in table yields a type for
\* a column, generate_code does not fail: the column gets the catch-all type of the
\* language (String for rust/java/ruby, string for typescript/csharp/go/php, str for
\* python, any for every other language), the fallback warning is printed, and the
\* table is still rendered and written (whenever the template renders and the
\* file can be written).
C3_FallbackTypeIsNotFatal ==
    [][ /\ (ColumnStep /\ NoMapping(CurrentColumn)) =>
              /\ raw_lang_type' = CatchAllType(lang_name_for_mapping)
              /\ Len(stdout') = Len(stdout) + 1
              /\ stdout'[Len(stdout')][1] = "Warning: No type mapping found, using fallback"
              /\ stdout'[Len(stdout')][3] = CurrentColumn.database_type
              /\ Len(columns_data_for_template') = Len(columns_data_for_template) + 1
              /\ pc' = "column"
              /\ error' = None
        /\ (ColumnStep /\ ~NoMapping(CurrentColumn)) => stdout' = stdout
        /\ ( /\ FinishStep
             /\ \E i \in DOMAIN CurrentTable.columns : NoMapping(CurrentTable.columns[i])
             /\ generator.handlebars[1].renders
             /\ OutputFilePath(cfg.generation.output_dir, CurrentTable, output_extension)
                    \notin fs.unwritable ) =>
              LET path == OutputFilePath(cfg.generation.output_dir, CurrentTable,
                                         output_extension)
              IN  /\ pc' = "table"
                  /\ error' = None
                  /\ path \in DOMAIN fs'.files
                  /\ fs'.files[path].data.Columns = columns_data_for_template
      ]_vars

\* A python table whose column has no mapping was written with the type str, after
\* the warning was printed.
C3_Witness ==
    /\ pc = "done"
    /\ lang_name_for_mapping = "python"
    /\ \E path \in DOMAIN fs.files :
          /\ Len(fs.files[path].data.Columns) = 1
          /\ fs.files[path].data.Columns[1].LangType = <<"s", "t", "r">>
          /\ fs.files[path].data.Columns[1].IsNullable = FALSE
    /\ \E i \in DOMAIN stdout :
          stdout[i][1] = "Warning: No type mapping found, using fallback"

\* C4: for a column with is_nullable = false the nullability transform is the
\* identity for every strategy and every language: the LangType is the raw resolved
\* type and the column registers no dynamic import.
C4_NonNullableIsIdentity ==
    [][ (ColumnStep /\ ~CurrentColumn.is_nullable) =>
            /\ NewRecord.LangType = raw_lang_type'
            /\ raw_lang_type' = raw_lang_type_of(cfg, active_db_config.db_type,
                                                 CurrentColumn, lang_name_for_mapping).t
            /\ NewRecord.IsNullable = FALSE
            /\ dynamic_imports' = dynamic_imports
      ]_vars

\* A non-nullable Go column resolved under nullable_type keeps int64.
C4_Witness ==
    /\ ColumnResolved
    /\ ~LastColumn.is_nullable
    /\ Strategy = "nullable_type"
    /\ lang_name_for_mapping = "go"
    /\ LastRecord.LangType = <<"i", "n", "t", "6", "4">>
    /\ dynamic_imports = <<>>

\* C5: for a nullable column with raw type t, in every language: pointer yields
\* "*" + t, option yields "Option<" + t + ">", union yields t + " | null", native and
\* optional_property yield t; none of the five registers an import.
C5_LanguageIndependentStrategies ==
    [][ (ColumnStep /\ CurrentColumn.is_nullable) =>
            LET t == raw_lang_type' IN
            /\ Strategy = "pointer" => NewRecord.LangType = <<"*">> \o t
            /\ Strategy = "option" => NewRecord.LangType = <<"O", "p", "t", "i", "o", "n", "<">> \o t \o <<">">>
            /\ Strategy = "union" => NewRecord.LangType = t \o <<" ", "|", " ", "n", "u", "l", "l">>
            /\ Strategy = "native" => NewRecord.LangType = t
            /\ Strategy = "optional_property" => NewRecord.LangType = t
            /\ Strategy \in {"pointer", "option", "union", "native", "optional_property"}
                  => dynamic_imports' = dynamic_imports
      ]_vars

\* A nullable column of a language without built-in types, under the pointer
\* strategy: the catch-all type behind the pointer marker.
C5_Witness ==
    /\ ColumnResolved
    /\ LastColumn.is_nullable
    /\ Strategy = "pointer"
    /\ lang_name_for_mapping = "kotlin"
    /\ raw_lang_type = <<"a", "n", "y">>
    /\ LastRecord.LangType = <<"*", "a", "n", "y">>

RecognizedCases ==
    {"PascalCase", "camelCase", "snake_case", "kebab-case", "SCREAMING_SNAKE_CASE"}

\* The case identifiers generate_code passes to apply_case_conversion.
FieldCase ==
    IF generator.lang_config.field_name_case # None
    THEN generator.lang_config.field_name_case[1]
    ELSE cfg.naming_conventions.column_to_field_case

StructCase ==
    IF generator.lang_config.struct_name_case # None
    THEN generator.lang_config.struct_name_case[1]
    ELSE cfg.naming_conventions.table_to_struct_case

FieldPrefix ==
    IF generator.lang_config.field_prefix # None
    THEN generator.lang_config.field_prefix[1]
    ELSE <<>>

\* C6: unrecognized names are pass-through and never abort generation:
\* apply_case_conversion with a case identifier outside the five recognized ones
\* returns its input unchanged (struct name and field name), and a nullable column
\* under a strategy outside the recognized set (the default "generic" included)
\* keeps its raw type.
C6_UnrecognizedNamesPassThrough ==
    [][ /\ (pc = "table" /\ pc' = "column" /\ StructCase \notin RecognizedCases) =>
              /\ template_data'.StructName = CurrentTable.name
              /\ error' = None
        /\ (ColumnStep /\ FieldCase \notin RecognizedCases) =>
              /\ NewRecord.FieldName = FieldPrefix \o CurrentColumn.name
              /\ pc' = "column"
              /\ error' = None
        /\ (ColumnStep /\ CurrentColumn.is_nullable /\ Strategy \notin RecognizedStrategies) =>
              /\ NewRecord.LangType = raw_lang_type'
              /\ dynamic_imports' = dynamic_imports
              /\ pc' = "column"
              /\ error' = None
      ]_vars

\* Under the unrecognized case "Title Case" the column UserId keeps its name (a
\* recognized case would re-segment it), and the nullable column under the
\* default strategy "generic" keeps the raw type.
C6_Witness ==
    /\ ColumnResolved
    /\ LastColumn.is_nullable
    /\ Strategy = "generic"
    /\ LastRecord.LangType = raw_lang_type
    /\ FieldCase = "Title Case"
    /\ StructCase = "snake"
    /\ LastColumn.name = <<"U", "s", "e", "r", "I", "d">>
    /\ LastRecord.FieldName = <<"U", "s", "e", "r", "I", "d">>
    /\ template_data.StructName = <<"U", "s", "e", "r", "I", "d">>
    /\ to_snake_case(LastColumn.name) # LastColumn.name

\* The nullable_type table of the claim C7.
NullableTypeExpected(lang, t) ==
    IF lang = "go"
    THEN IF Len(t) >= 5 /\ SubSeq(t, 1, 5) = <<"t", "i", "m", "e", ".">> THEN <<"s", "q", "l", ".", "N", "u", "l", "l", "T", "i", "m", "e">>
         ELSE IF t = <<"s", "t", "r", "i", "n", "g">> THEN <<"s", "q", "l", ".", "N", "u", "l", "l", "S", "t", "r", "i", "n", "g">>
         ELSE IF t = <<"i", "n", "t", "6", "4">> THEN <<"s", "q", "l", ".", "N", "u", "l", "l", "I", "n", "t", "6", "4">>
         ELSE IF t = <<"f", "l", "o", "a", "t", "6", "4">> THEN <<"s", "q", "l", ".", "N", "u", "l", "l", "F", "l", "o", "a", "t", "6", "4">>
         ELSE IF t = <<"b", "o", "o", "l">> THEN <<"s", "q", "l", ".", "N", "u", "l", "l", "B", "o", "o", "l">>
         ELSE <<"*">> \o t
    ELSE IF lang \in {"csharp", "kotlin", "swift", "dart"} THEN t \o <<"?">>
    ELSE IF lang = "java"
    THEN IF t = <<"i", "n", "t">> THEN <<"I", "n", "t", "e", "g", "e", "r">>
         ELSE IF t = <<"l", "o", "n", "g">> THEN <<"L", "o", "n", "g">>
         ELSE IF t = <<"b", "o", "o", "l", "e", "a", "n">> THEN <<"B", "o", "o", "l", "e", "a", "n">>
         ELSE IF t = <<"f", "l", "o", "a", "t">> THEN <<"F", "l", "o", "a", "t">>
         ELSE IF t = <<"d", "o", "u", "b", "l", "e">> THEN <<"D", "o", "u", "b", "l", "e">>
         ELSE t
    ELSE IF lang = "php" THEN <<"?">> \o t
    ELSE t \o <<" ", "|", " ", "n", "u", "l", "l">>

\* C7: for a nullable column under nullable_type with raw type t the result is
\* chosen by the language: go maps a time.-prefixed t to sql.NullTime,
\* string/int64/float64/bool to sql.NullString/NullInt64/NullFloat64/NullBool and any
\* other t to "*" + t; csharp, kotlin, swift and dart give t + "?"; java boxes
\* int/long/boolean/float/double and leaves any other t; php gives "?" + t; every
\* other language gives t + " | null".
C7_NullableTypePerLanguage ==
    [][ (ColumnStep /\ CurrentColumn.is_nullable /\ Strategy = "nullable_type") =>
            NewRecord.LangType = NullableTypeExpected(lang_name_for_mapping, raw_lang_type')
      ]_vars

\* A configured Go type time.Duration, time.-prefixed but not time.Time, became
\* sql.NullTime.
C7_Witness ==
    /\ ColumnResolved
    /\ LastColumn.is_nullable
    /\ Strategy = "nullable_type"
    /\ lang_name_for_mapping = "go"
    /\ raw_lang_type = <<"t", "i", "m", "e", ".", "D", "u", "r", "a", "t", "i", "o", "n">>
    /\ LastRecord.LangType = <<"s", "q", "l", ".", "N", "u", "l", "l", "T", "i", "m", "e">>

\* The imports a ProcessColumn step registered: dynamic_imports' = dynamic_imports \o r.
Registers(r) == dynamic_imports' = dynamic_imports \o r

\* C8: under nullable_type for Go, a nullable column registers imports exactly when
\* its raw type is time-prefixed (time and database/sql) or is one of {string, int64,
\* float64, bool} (database/sql); a nullable column whose raw type is anything else
\* (e.g. []byte, rendered as a pointer) registers no import.
C8_GoImportsOnlyForSqlNullTypes ==
    [][ ( /\ ColumnStep
          /\ CurrentColumn.is_nullable
          /\ Strategy = "nullable_type"
          /\ lang_name_for_mapping = "go" ) =>
            LET t == raw_lang_type' IN
            IF Len(t) >= 5 /\ SubSeq(t, 1, 5) = <<"t", "i", "m", "e", ".">>
            THEN Registers(<<"time", "database/sql">>)
            ELSE IF t \in {<<"s", "t", "r", "i", "n", "g">>, <<"i", "n", "t", "6", "4">>, <<"f", "l", "o", "a", "t", "6", "4">>, <<"b", "o", "o", "l">>}
            THEN Registers(<<"database/sql">>)
            ELSE Registers(<<>>)
      ]_vars

Count(v, x) == Cardinality({i \in DOMAIN v : v[i] = x})

\* C9: for a nullable column under optional_type with raw type t: python yields
\* Optional[t] and registers typing.Optional, which occurs at most once in the
\* dynamic imports of the table however many nullable columns it has; zig yields
\* "?" + t, nim Option[t], haskell "Maybe " + t, ocaml t + " option"; every other
\* language yields t and registers nothing.
C9_OptionalTypePerLanguage ==
    [][ (ColumnStep /\ CurrentColumn.is_nullable /\ Strategy = "optional_type") =>
            LET t == raw_lang_type'
                lang == lang_name_for_mapping
            IN  /\ lang = "python" =>
                      /\ NewRecord.LangType = <<"O", "p", "t", "i", "o", "n", "a", "l", "[">> \o t \o <<"]">>
                      /\ Count(dynamic_imports', "typing.Optional") = 1
                      /\ \/ Registers(<<"typing.Optional">>)
                         \/ /\ Registers(<<>>)
                            /\ Count(dynamic_imports, "typing.Optional") = 1
                /\ lang = "zig" => NewRecord.LangType = <<"?">> \o t
                /\ lang = "nim" => NewRecord.LangType = <<"O", "p", "t", "i", "o", "n", "[">> \o t \o <<"]">>
                /\ lang = "haskell" => NewRecord.LangType = <<"M", "a", "y", "b", "e", " ">> \o t
                /\ lang = "ocaml" => NewRecord.LangType = t \o <<" ", "o", "p", "t", "i", "o", "n">>
                /\ lang \notin {"python", "zig", "nim", "haskell", "ocaml"} =>
                      NewRecord.LangType = t
                /\ lang # "python" => Registers(<<>>)
      ]_vars

\* A python table of three nullable columns: one typing.Optional.
C9_Witness ==
    /\ ColumnResolved
    /\ column_idx = 4
    /\ \A i \in 1..3 : CurrentTable.columns[i].is_nullable
    /\ Strategy = "optional_type"
    /\ lang_name_for_mapping = "python"
    /\ LastRecord.LangType = <<"O", "p", "t", "i", "o", "n", "a", "l", "[", "s", "t", "r", "]">>
    /\ dynamic_imports = <<"typing.Optional">>

DefaultImports ==
    IF generator.lang_config.default_imports # None
    THEN generator.lang_config.default_imports[1]
    ELSE <<>>

\* The first occurrence of every value of v, in order.
RECURSIVE FirstOccurrences(_)
FirstOccurrences(v) ==
    IF v = <<>> THEN <<>>
    ELSE LET front == FirstOccurrences(SubSeq(v, 1, Len(v) - 1))
             last  == v[Len(v)]
         IN  IF \E i \in 1..(Len(v) - 1) : v[i] = last THEN front ELSE Append(front, last)

\* The values of v that do not occur in w, in order.
RECURSIVE NotIn(_, _)
NotIn(v, w) ==
    IF v = <<>> THEN <<>>
    ELSE IF \E i \in DOMAIN w : w[i] = Head(v)
         THEN NotIn(Tail(v), w)
         ELSE <<Head(v)>> \o NotIn(Tail(v), w)

NoDuplicates(v) == \A i, j \in DOMAIN v : v[i] = v[j] => i = j

\* C10 as stated: for every table the Imports handed to the template are the
\* default imports followed by the imports registered during nullability resolution,
\* with no value occurring twice and first-seen order preserved, for every
\* default_imports and every sequence of columns.
C10_ImportsHaveNoDuplicates ==
    [][ FinishStep =>
            /\ template_data'.Imports = FirstOccurrences(DefaultImports \o dynamic_imports)
            /\ NoDuplicates(template_data'.Imports)
      ]_vars

\* C10 amended: the Imports handed to the template are default_imports exactly as
\* configured (a value repeated there stays repeated), followed by the registered
\* imports that default_imports does not contain, each once, in the order they
\* were first registered; so the list has no duplicate when default_imports has none.
C10_ImportsMergedAfterDefaults ==
    [][ FinishStep =>
            /\ template_data'.Imports =
                   DefaultImports \o FirstOccurrences(NotIn(dynamic_imports, DefaultImports))
            /\ NoDuplicates(DefaultImports) => NoDuplicates(template_data'.Imports)
      ]_vars

\* A Go table with two nullable datetime columns and default imports time, fmt, time:
\* the defaults are kept as configured and database/sql is added once.
C10_Witness ==
    /\ pc = "table"
    /\ table_idx = 2
    /\ DefaultImports = <<"time", "fmt", "time">>
    /\ dynamic_imports = <<"time", "database/sql", "time", "database/sql">>
    /\ template_data.Imports = <<"time", "fmt", "time", "database/sql">>
    /\ \E path \in DOMAIN fs.files :
          fs.files[path].data.Imports = <<"time", "fmt", "time", "database/sql">>

(***************************************************************************)
(* Properties of the tags of a column                                      *)
(***************************************************************************)
\* The tag templates configured for the language of the generator.
TagTemplates ==
    IF generator.lang_config.tags # None THEN generator.lang_config.tags[1] ELSE <<>>

Fails(tag, column) == render_template(tag, column) = None

SomeTagFails(column) == \E i \in DOMAIN TagTemplates : Fails(TagTemplates[i], column)

\* The templates that render, each rendered on its own and trimmed, without the
\* ones that are empty after trimming, in declaration order.
SurvivingTags(column) ==
    LET ok == SelectSeq(TagTemplates, LAMBDA t : ~Fails(t, column))
        trimmed == [i \in DOMAIN ok |-> trim(render_template(ok[i], column)[1])]
    IN  SelectSeq(trimmed, LAMBDA s : s # <<>>)

RECURSIVE SpaceJoined(_)
SpaceJoined(tags) ==
    IF Len(tags) = 1 THEN tags[1]
    ELSE SpaceJoined(SubSeq(tags, 1, Len(tags) - 1)) \o <<" ">> \o tags[Len(tags)]

\* The lines of a text: the pieces between its newline characters.
RECURSIVE SplitLines(_, _)
SplitLines(s, line) ==
    IF s = <<>> THEN <<line>>
    ELSE IF Head(s) = "\n" THEN <<line>> \o SplitLines(Tail(s), <<>>)
    ELSE SplitLines(Tail(s), Append(line, Head(s)))

\* C12: the LangTags of a column is built from its rendered tags that are non-empty
\* after trimming, in declaration order: for go they are space-joined on one line
\* and wrapped in backticks; for rust, csharp, java, python and php they are
\* newline-joined, each tag on its own line (as many lines as tags, line i holding
\* tag i); for typescript, ruby and every other language LangTags is the empty
\* string even when tags are configured; when no tag survives LangTags is the empty
\* string for every language, never an empty pair of backticks.
C12_LangTagsPerLanguage ==
    [][ ColumnStep =>
            LET tags == SurvivingTags(CurrentColumn)
                lang == lang_name_for_mapping
                lines == SplitLines(NewRecord.LangTags, <<>>)
            IN  /\ tags = <<>> => NewRecord.LangTags = <<>>
                /\ (tags # <<>> /\ lang = "go") =>
                      /\ NewRecord.LangTags =
                            <<c_backtick>> \o SpaceJoined(tags) \o <<c_backtick>>
                      /\ Len(lines) = 1
                /\ (tags # <<>> /\ lang \in {"rust", "csharp", "java", "python", "php"}) =>
                      /\ Len(lines) = Len(tags)
                      /\ \A i \in DOMAIN tags : trim(lines[i]) = tags[i]
                /\ lang \notin {"go", "rust", "csharp", "java", "python", "php"} =>
                      NewRecord.LangTags = <<>>
      ]_vars

\* A rust column with two surviving tags: two lines, one tag each.
C12_Witness ==
    /\ ColumnResolved
    /\ lang_name_for_mapping = "rust"
    /\ Len(TagTemplates) = 2
    /\ LastRecord.LangTags = <<"#", "[", "s", "e", "r", "d", "e", "(", "d", "e", "f", "a", "u", "l", "t", ")", "]", "\n", " ", " ", " ", " ", "e", "m", "a", "i", "l">>

(***************************************************************************)
(* Properties of template resolution                                       *)
(***************************************************************************)
\* A step of New: the template of the language at lang_idx is resolved.
NewStep == pc = "new" /\ pc' # "new"

\* The extension the built-in template is derived from when neither template_path
\* nor template_file is set: Some(extension), or None.
DerivedExtension ==
    IF generator.lang_config.output_extension # None
    THEN generator.lang_config.output_extension
    ELSE get_default_output_extension(FindLanguageName(cfg, generator.lang_config))

DirPath == <<cfg.generation.template_dir, generator.lang_config.template_file[1]>>

Loadable(path) == path \in DOMAIN fs.template_files /\ fs.template_files[path].compiles

\* C13: template resolution takes the first applicable source: if template_path is
\* set that file is the template, whatever template_file and output_extension say;
\* else if template_file is set, the file of that name under template_dir is used
\* when it exists and otherwise the built-in template with exactly that name; only
\* when neither is set is the built-in template derived from the output extension
\* (the explicit output_extension, else the default extension of the language).
C13_TemplateResolutionOrder ==
    [][ NewStep =>
            LET lc == generator.lang_config
                resolved == pc' = "generate"
                template == generator'.handlebars
            IN  /\ lc.template_path # None =>
                      /\ resolved <=> Loadable(<<lc.template_path[1]>>)
                      /\ resolved => template = Some(fs.template_files[<<lc.template_path[1]>>])
                /\ (lc.template_path = None /\ lc.template_file # None
                        /\ DirPath \in DOMAIN fs.template_files) =>
                      /\ resolved <=> Loadable(DirPath)
                      /\ resolved => template = Some(fs.template_files[DirPath])
                /\ (lc.template_path = None /\ lc.template_file # None
                        /\ DirPath \notin DOMAIN fs.template_files) =>
                      /\ resolved <=> lc.template_file[1] \in BuiltInTemplateNames
                      /\ resolved => template = Some(BuiltInTemplateText(lc.template_file[1]))
                /\ (lc.template_path = None /\ lc.template_file = None /\ resolved) =>
                      /\ DerivedExtension # None
                      /\ get_default_template_file(DerivedExtension[1]) # None
                      /\ template = Some(BuiltInTemplateText(
                                            get_default_template_file(DerivedExtension[1])[1]))
      ]_vars

\* A run for go with template_path, template_file and output_extension all set: the
\* file was rendered with the template at template_path.
C13_Witness ==
    /\ pc = "done"
    /\ generator # None
    /\ generator.lang_config.template_path = Some("custom/model.hbs")
    /\ generator.lang_config.template_file = Some("go_struct.hbs")
    /\ generator.lang_config.output_extension # None
    /\ <<"templates", "go_struct.hbs">> \in DOMAIN fs.template_files
    /\ \E path \in DOMAIN fs.files :
          fs.files[path].template = <<"file", "custom/model.hbs">>

\* C14: template resolution fails, and no file is written for that language, when:
\* template_path names a file that cannot be loaded; template_file is neither under
\* template_dir nor the name of a built-in template; neither is set and the language
\* name has no default extension while output_extension is unset; neither is set and
\* the extension, after stripping leading dots, has no built-in template name.
C14_TemplateResolutionFails ==
    [][ /\ NewStep =>
            LET lc == generator.lang_config
                lang == FindLanguageName(cfg, lc)
                fails == /\ pc' = "failed"
                         /\ error' # None
                         /\ fs' = fs
                         /\ \A path \in DOMAIN fs.files :
                               fs.files[path].data.CurrentLanguage # lang
            IN  /\ (lc.template_path # None /\ ~Loadable(<<lc.template_path[1]>>)) => fails
                /\ (lc.template_path = None /\ lc.template_file # None
                        /\ DirPath \notin DOMAIN fs.template_files
                        /\ lc.template_file[1] \notin BuiltInTemplateNames) => fails
                /\ (lc.template_path = None /\ lc.template_file = None
                        /\ lc.output_extension = None
                        /\ get_default_output_extension(lang) = None) => fails
                /\ (lc.template_path = None /\ lc.template_file = None
                        /\ DerivedExtension # None
                        /\ get_default_template_file(
                               trim_start_dots(DerivedExtension[1])) = None) => fails
        /\ pc = "failed" => (pc' = "failed" /\ fs' = fs)
      ]_vars

\* The run failed in New on a template_file that is in no directory and is no
\* built-in name, and nothing was written.
C14_Witness ==
    /\ pc = "failed"
    /\ generator # None
    /\ generator.handlebars = None
    /\ generator.lang_config.template_path = None
    /\ generator.lang_config.template_file = Some("nope.hbs")
    /\ fs.files = EmptyMap

\* C15: in any run the template of each target language is resolved and compiled
\* exactly once, before the first table of that language is rendered, and that
\* compiled template is the one every table of that language is rendered with: a
\* resolution starts only at the head of the loop of main, ends in one step, the
\* loop never returns to a language, and the registered template changes nowhere
\* else.
C15_TemplateResolvedOncePerLanguage ==
    [][ /\ (pc # "new" /\ pc' = "new") => (pc = "main" /\ generator'.handlebars = None)
        /\ pc = "new" => pc' \in {"generate", "failed"}
        /\ (pc # "main" /\ pc' = "main") => lang_idx' = lang_idx + 1
        /\ lang_idx' # lang_idx => (pc' = "main" /\ lang_idx' = lang_idx + 1)
        /\ (pc \notin {"main", "new"}) => generator' = generator
        /\ (FinishStep /\ pc' = "table") =>
              /\ generator.handlebars # None
              /\ fs'.files[OutputFilePath(cfg.generation.output_dir, CurrentTable,
                                          output_extension)].template
                    = generator.handlebars[1].id
      ]_vars

\* A run over one language and two tables: both files were rendered with the
\* template registered by New.
C15_Witness ==
    /\ pc = "done"
    /\ Len(cfg.generation.target_languages) = 1
    /\ \E p, q \in DOMAIN fs.files :
          /\ p # q
          /\ fs.files[p].template = generator.handlebars[1].id
          /\ fs.files[q].template = generator.handlebars[1].id

(***************************************************************************)
(* Properties of the table filter                                          *)
(***************************************************************************)
\* A step of TableLoop on the table at table_idx.
TableStep == pc = "table" /\ table_idx <= Len(schema.tables) /\ pc' # "failed"

MatchesAny(name, patterns) ==
    \E i \in DOMAIN patterns : matches_pattern(name, patterns[i])

\* C16: should_include_table returns true for every table name when no patterns are
\* configured; otherwise false for a name matching at least one exclude pattern,
\* whatever the include patterns are, true for a name matching no exclude pattern and
\* at least one include pattern, and false for a name matching no include pattern
\* (include = ["*"], exclude = ["temp_*"] excludes temp_users and includes users). A
\* table for which it returns false is skipped without error and produces no file.
C16_TableFilter ==
    [][ /\ TableStep =>
            LET name == CurrentTable.name
                p == cfg.generation.table_name_patterns
                included == should_include_table(cfg, name)
            IN  /\ p = None => included
                /\ (p # None /\ MatchesAny(name, p[1].exclude)) => ~included
                /\ (p # None /\ ~MatchesAny(name, p[1].exclude)
                        /\ MatchesAny(name, p[1].include)) => included
                /\ (p # None /\ ~MatchesAny(name, p[1].include)) => ~included
                /\ p = Some([include |-> <<<<"*">>>>, exclude |-> <<<<"t", "e", "m", "p", "_", "*">>>>]) =>
                      /\ name = n_temp_users => ~included
                      /\ name = n_users => included
                /\ ~included =>
                      /\ pc' = "table"
                      /\ table_idx' = table_idx + 1
                      /\ error' = None
                      /\ fs' = fs
                /\ included => pc' = "column"
        /\ FinishStep => should_include_table(cfg, CurrentTable.name)
      ]_vars

\* A run with include = ["*"] and exclude = ["temp_*"] is done: users was written,
\* temp_users was skipped and has no file.
C16_Witness ==
    /\ pc = "done"
    /\ cfg.generation.table_name_patterns =
          Some([include |-> <<<<"*">>>>, exclude |-> <<<<"t", "e", "m", "p", "_", "*">>>>])
    /\ <<"generated", <<"u", "s", "e", "r", "s", ".", "g", "o">>>> \in DOMAIN fs.files
    /\ <<"generated", <<"t", "e", "m", "p", "_", "u", "s", "e", "r", "s", ".", "g", "o">>>> \notin DOMAIN fs.files
    /\ \E i \in DOMAIN stdout : stdout[i] = <<"Skipping table", n_temp_users>>

(***************************************************************************)
(* Properties of matches_pattern and apply_case_conversion (specification  *)
(* SpecPure)                                                               *)
(***************************************************************************)
ReturnedFrom(fn) == pc = "returned" /\ call[1].fn = fn

\* m occurs in text at some position.
Occurs(text, m) ==
    \E k \in 0..(Len(text) - Len(m)) : \A j \in 1..Len(m) : text[k + j] = m[j]

\* C17: matches_pattern(text, pattern) is true for the pattern "*" on every text;
\* for a pattern of the form *middle* exactly when text contains middle; for prefix*
\* exactly when text starts with prefix; for *suffix exactly when text ends with
\* suffix; and for a pattern with no wildcard exactly when text equals the pattern.
C17_MatchesPattern ==
    ReturnedFrom("matches_pattern") =>
        LET text == call[1].text
            pattern == call[1].pattern
            n == Len(pattern)
            starts == n >= 1 /\ pattern[1] = "*"
            ends == n >= 1 /\ pattern[n] = "*"
        IN  /\ pattern = <<"*">> => call[1].result
            /\ (n >= 2 /\ starts /\ ends) =>
                  (call[1].result <=> Occurs(text, SubSeq(pattern, 2, n - 1)))
            /\ (n >= 2 /\ ends /\ ~starts) =>
                  (call[1].result <=>
                      /\ Len(text) >= n - 1
                      /\ \A j \in 1..(n - 1) : text[j] = pattern[j])
            /\ (n >= 2 /\ starts /\ ~ends) =>
                  (call[1].result <=>
                      /\ Len(text) >= n - 1
                      /\ \A j \in 2..n : text[Len(text) - n + j] = pattern[j])
            /\ (\A j \in 1..n : pattern[j] # "*") => (call[1].result <=> text = pattern)

\* The pattern *a* was matched against a text that holds a in the middle.
C17_Witness ==
    /\ ReturnedFrom("matches_pattern")
    /\ call[1].pattern = <<"*", "a", "*">>
    /\ call[1].text = <<"b", "a", "b">>
    /\ call[1].result = TRUE

\* C18: case conversion is idempotent for each of the five recognized cases,
\* convert(convert(x, C), C) = convert(x, C) for every identifier x, and it
\* round-trips word boundaries: convert("user_id", PascalCase) = "UserId" and
\* convert("UserId", snake_case) = "user_id".
C18_CaseConversionIdempotent ==
    ReturnedFrom("apply_case_conversion") =>
        /\ call[1].case_type \in RecognizedCases => call[1].again = call[1].result
        /\ (call[1].input = n_user_id /\ call[1].case_type = "PascalCase") =>
              call[1].result = n_UserId
        /\ (call[1].input = n_UserId /\ call[1].case_type = "snake_case") =>
              call[1].result = n_user_id

\* C28: a pattern whose only wildcard characters are in interior positions
\* (neither first nor last, e.g. "a*b") is not a glob: matches_pattern returns
\* true only for a text equal to the pattern string itself; and for a pattern
\* that both starts and ends with '*' the text between the outer stars is matched
\* as a literal substring even when it contains further '*' characters.
C28_InteriorWildcardIsLiteral ==
    ReturnedFrom("matches_pattern") =>
        LET text == call[1].text
            pattern == call[1].pattern
            n == Len(pattern)
            interior == \E j \in 2..(n - 1) : pattern[j] = "*"
        IN  /\ (n >= 3 /\ pattern[1] # "*" /\ pattern[n] # "*" /\ interior) =>
                  (call[1].result <=> text = pattern)
            /\ (n >= 3 /\ pattern[1] = "*" /\ pattern[n] = "*" /\ interior) =>
                  (call[1].result <=> Occurs(text, SubSeq(pattern, 2, n - 1)))

\* The pattern a*b was matched against the text aab, which a glob would accept,
\* and the result is false.
C28_Witness ==
    /\ ReturnedFrom("matches_pattern")
    /\ call[1].pattern = <<"a", "*", "b">>
    /\ call[1].text = <<"a", "a", "b">>
    /\ call[1].result = FALSE

(***************************************************************************)
(* Properties of the output files and of the order of a run               *)
(***************************************************************************)
IncludedTables == {t \in DOMAIN schema.tables : should_include_table(cfg, schema.tables[t].name)}

TargetNames == {cfg.generation.target_languages[i] : i \in DOMAIN cfg.generation.target_languages}

\* The output extension of a target language: output_extension, or the default one.
ExtensionOf(name) ==
    LET lc == cfg.languages[name] IN
    IF lc.output_extension # None THEN lc.output_extension[1]
    ELSE get_default_output_extension(FindLanguageName(cfg, lc))[1]

\* output_dir/<snake_case(table name)>.<output extension of the language>
PathOf(t, name) ==
    <<cfg.generation.output_dir,
      to_snake_case(schema.tables[t].name) \o <<".">> \o ExtensionOf(name)>>

\* C19: after a successful run there is exactly one output file per (included
\* table, target language) pair, at output_dir/<snake_case(table name)>.<output
\* extension of the language>, holding the text rendered for that pair: distinct
\* pairs are written to distinct paths, so no generated file is overwritten by
\* another table or another language of the same run.
C19_OneFilePerTableAndLanguage ==
    pc = "done" =>
        LET pairs == IncludedTables \X TargetNames IN
        /\ \A p \in pairs :
              /\ PathOf(p[1], p[2]) \in DOMAIN fs.files
              /\ fs.files[PathOf(p[1], p[2])].data.TableName = schema.tables[p[1]].name
              /\ fs.files[PathOf(p[1], p[2])].data.CurrentLanguage =
                    FindLanguageName(cfg, cfg.languages[p[2]])
        /\ \A p, q \in pairs : p # q => PathOf(p[1], p[2]) # PathOf(q[1], q[2])
        /\ Cardinality(DOMAIN fs.files) = Cardinality(pairs)

\* The lines of stdout that report a written file, as paths.
RECURSIVE GeneratedPaths(_)
GeneratedPaths(out) ==
    IF out = <<>> THEN <<>>
    ELSE IF Head(out)[1] = "Generated" THEN <<Head(out)[2]>> \o GeneratedPaths(Tail(out))
    ELSE GeneratedPaths(Tail(out))

\* The lines of stdout since the language at lang_idx was announced.
SinceAnnounced ==
    LET starts == {i \in DOMAIN stdout : stdout[i][1] = "Generating code for language"}
        last == CHOOSE i \in starts : \A j \in starts : j <= i
    IN  SubSeq(stdout, last + 1, Len(stdout))

\* The paths of the included tables before table k, in schema order.
RECURSIVE PathsBefore(_)
PathsBefore(k) ==
    IF k <= 1 THEN <<>>
    ELSE PathsBefore(k - 1) \o
         (IF k - 1 \in IncludedTables
          THEN <<OutputFilePath(cfg.generation.output_dir, schema.tables[k - 1],
                                output_extension)>>
          ELSE <<>>)

\* C20: generation is strictly sequential: every file of target language i is
\* written before the template of target language i+1 is resolved, and within one
\* language the files of the included tables are written in schema order, each
\* table's file written before the columns of the next table are resolved.
C20_StrictlySequential ==
    [][ /\ NewStep =>
              Len(GeneratedPaths(stdout)) = (lang_idx - 1) * Cardinality(IncludedTables)
        /\ ColumnStep =>
              /\ GeneratedPaths(SinceAnnounced) = PathsBefore(table_idx)
              /\ \A p \in {PathsBefore(table_idx)[i] : i \in 1..Len(PathsBefore(table_idx))} :
                    p \in DOMAIN fs.files
        /\ (FinishStep /\ pc' = "table") =>
              /\ GeneratedPaths(SinceAnnounced) = PathsBefore(table_idx)
              /\ stdout' = Append(stdout,
                                  <<"Generated",
                                    OutputFilePath(cfg.generation.output_dir,
                                                   schema.tables[table_idx],
                                                   output_extension)>>)
              /\ table_idx' = table_idx + 1
      ]_vars

\* A run over go and rust and two tables is done: the four files were written in
\* the order users.go, temp_users.go, users.rs, temp_users.rs.
C20_Witness ==
    /\ pc = "done"
    /\ cfg.generation.target_languages = <<"go", "rust">>
    /\ GeneratedPaths(stdout) =
          << <<"generated", <<"u", "s", "e", "r", "s", ".", "g", "o">>>>, <<"generated", <<"t", "e", "m", "p", "_", "u", "s", "e", "r", "s", ".", "g", "o">>>>,
             <<"generated", <<"u", "s", "e", "r", "s", ".", "r", "s">>>>, <<"generated", <<"t", "e", "m", "p", "_", "u", "s", "e", "r", "s", ".", "r", "s">>>> >>

(***************************************************************************)
(* Properties of the failures of a run                                     *)
(***************************************************************************)
\* A step of MainLoop that takes the entry at lang_idx of target_languages.
MainStep ==
    /\ pc = "main"
    /\ lang_idx <= Len(cfg.generation.target_languages)

\* The lines of stdout that announce a target language, as names.
RECURSIVE Announced(_)
Announced(out) ==
    IF out = <<>> THEN <<>>
    ELSE IF Head(out)[1] = "Generating code for language"
    THEN <<Head(out)[2]>> \o Announced(Tail(out))
    ELSE Announced(Tail(out))

NotFound == Some("Language config not found in config.languages")

\* C21: if a name in generation.target_languages has no entry in languages, the
\* run fails when that entry is reached: the step that reaches it ends the run
\* with the "not found" error, resolves no template (the generator is the one of
\* the entry before), writes no file and prints nothing; the languages announced
\* are exactly the entries before it, and no step follows the failure, so no
\* later entry of target_languages is processed.
C21_MissingLanguageFailsTheRun ==
    [][ /\ (MainStep /\ TargetLanguage \notin DOMAIN cfg.languages) =>
              /\ pc' = "failed"
              /\ error' = NotFound
              /\ UNCHANGED <<fs, generator, stdout, lang_idx>>
              /\ Announced(stdout) = SubSeq(cfg.generation.target_languages, 1, lang_idx - 1)
        /\ (MainStep /\ TargetLanguage \in DOMAIN cfg.languages) => pc' = "new"
        /\ error' = NotFound => (MainStep /\ TargetLanguage \notin DOMAIN cfg.languages)
        /\ pc = "failed" => UNCHANGED vars
      ]_vars

\* The run over go and then lua, which has no entry in languages, has failed at
\* lua after go's files were written.
C21_Witness ==
    /\ pc = "failed"
    /\ error = NotFound
    /\ cfg.generation.target_languages = <<"go", "lua">>
    /\ lang_idx = 2
    /\ Announced(stdout) = <<"go">>
    /\ DOMAIN fs.files # {}

RenderFails == ~generator.handlebars[1].renders

WriteFails ==
    OutputFilePath(cfg.generation.output_dir, CurrentTable, output_extension)
        \in fs.unwritable

\* C22: if rendering or writing fails for a table, generate_code returns that
\* error at once: the failing step ends the run with the render or write error,
\* the file system and stdout are as they were (no file for that table), the
\* files reported for the language are those of the tables before it, only the
\* entries of target_languages up to this one were announced, and no step
\* follows (no retry, no later table, no later language).
C22_RenderOrWriteFailureAborts ==
    [][ /\ (FinishStep /\ (RenderFails \/ WriteFails)) =>
              /\ pc' = "failed"
              /\ error' = IF RenderFails THEN Some("Failed to render template for table")
                          ELSE Some("Failed to write file")
              /\ UNCHANGED <<fs, stdout, lang_idx, table_idx, generator>>
              /\ GeneratedPaths(SinceAnnounced) = PathsBefore(table_idx)
              /\ Announced(stdout) = SubSeq(cfg.generation.target_languages, 1, lang_idx)
        /\ (FinishStep /\ ~RenderFails /\ ~WriteFails) => pc' = "table"
        /\ (pc = "failed" /\ error \in {Some("Failed to render template for table"),
                                         Some("Failed to write file")}) => FALSE
      ]_vars

\* The run over go and rust has failed on writing users.rs: go's two files are
\* there, and neither users.rs nor the file of the later table temp_users is.
C22_Witness ==
    /\ pc = "failed"
    /\ error = Some("Failed to write file")
    /\ cfg.generation.target_languages = <<"go", "rust">>
    /\ lang_idx = 2
    /\ table_idx = 1
    /\ IncludedTables = {1, 2}
    /\ DOMAIN fs.files = {<<"generated", <<"u", "s", "e", "r", "s", ".", "g", "o">>>>, <<"generated", <<"t", "e", "m", "p", "_", "u", "s", "e", "r", "s", ".", "g", "o">>>>}

(***************************************************************************)
(* Properties of a run as a function of its inputs                         *)
(***************************************************************************)
\* The orders in which languages.iter() can visit the entries of the HashMap.
IterationOrders ==
    LET names == DOMAIN cfg.languages
        n == Cardinality(names)
    IN  {o \in [1..n -> names] : \A i, j \in 1..n : o[i] = o[j] => i = j}

\* The records and the registered imports of the columns from i on, computed as
\* ProcessColumn computes them one step at a time.
RECURSIVE ColumnsFrom(_, _, _, _, _, _, _)
ColumnsFrom(c, lang_config, lang, columns, i, records, imports) ==
    IF i > Len(columns) THEN [records |-> records, imports |-> imports]
    ELSE LET column == columns[i]
             raw == raw_lang_type_of(c, active_db_config.db_type, column, lang)
             effective == EffectiveLangType(raw.t, column.is_nullable,
                                            lang_config.nullable_strategy, lang, imports)
             record == [FieldName |-> FieldName(c, lang_config, column),
                        LangType |-> effective.t,
                        LangTags |-> final_tags_string(lang, ColumnTags(lang_config, column)),
                        IsNullable |-> column.is_nullable,
                        OriginalColumnName |-> column.name,
                        ColumnComment |-> column.comment,
                        DefaultValue |-> column.default_value,
                        IsPrimaryKey |-> column.is_primary_key]
         IN  ColumnsFrom(c, lang_config, lang, columns, i + 1,
                         Append(records, record), effective.imports)

\* The file a run with configuration c emits for a table under lang_config:
\* Some(path and text), or None when new or generate_code fails.
EmittedFile(c, lang_config, table) ==
    LET name == FindLanguageName(c, lang_config)
        ext == IF lang_config.output_extension # None
               THEN lang_config.output_extension
               ELSE get_default_output_extension(name)
        template == ResolveTemplate(c, lang_config, fs.template_files)
    IN  IF ext = None \/ template = None THEN None
        ELSE LET f == ColumnsFrom(c, lang_config, name, table.columns, 1, <<>>, <<>>)
                 data == [TemplateData(c, lang_config, name, table) EXCEPT
                             !.Columns = f.records,
                             !.Imports = MergeImports(@, f.imports)]
                 text == Render(template[1], data)
             IN  IF text = None THEN None
                 ELSE Some([path |-> OutputFilePath(c.generation.output_dir, table, ext[1]),
                            text |-> text[1]])

\* The step writes the file `out` and reports it.
Writes(out) ==
    /\ out # None
    /\ out[1].path \in DOMAIN fs'.files
    /\ fs'.files[out[1].path] = out[1].text
    /\ stdout' = Append(stdout, <<"Generated", out[1].path>>)

\* C23: generation is deterministic: the file a run writes for a table, text and
\* path, is the file every run with the same schema, the same configuration and
\* the same target language writes, whatever the order in which the languages
\* HashMap of that run is iterated (the one input of a run that is not in the
\* schema, the configuration or the target language).
C23_Deterministic ==
    [][ (FinishStep /\ pc' = "table") =>
            \A order \in IterationOrders :
                Writes(EmittedFile([cfg EXCEPT !.languages_iter = order],
                                   cfg.languages[TargetLanguage], CurrentTable))
      ]_vars

\* The run is over the one table users (id: integer, non-null, primary key;
\* email: string, nullable), without type mappings, for the one language lang
\* configured with the strategy and nothing else, the only entry of languages
\* with that value.
EndToEnd(lang, strategy) ==
    /\ cfg.generation.target_languages = <<lang>>
    /\ cfg.languages[lang] = LanguageConfig(strategy, None)
    /\ \A other \in DOMAIN cfg.languages \ {lang} : cfg.languages[other] # cfg.languages[lang]
    /\ cfg.type_mappings = EmptyMap
    /\ Len(schema.tables) = 1
    /\ schema.tables[1].name = n_users
    /\ Len(schema.tables[1].columns) = 2
    /\ LET id == schema.tables[1].columns[1]
           email == schema.tables[1].columns[2]
       IN  /\ id.name = n_id /\ id.generic_type = "integer"
           /\ ~id.is_nullable /\ id.is_primary_key
           /\ email.name = n_email /\ email.generic_type = "string"
           /\ email.is_nullable

\* The one output file is at generated/<name>, rendered from the built-in
\* template over a context whose fields id and email have the given types.
OnlyFile(name, template_file, id_type, email_type) ==
    /\ DOMAIN fs.files = {<<cfg.generation.output_dir, name>>}
    /\ LET file == fs.files[<<cfg.generation.output_dir, name>>] IN
       /\ file.template = <<"built-in", template_file>>
       /\ Len(file.data.Columns) = 2
       /\ file.data.Columns[1].FieldName = n_id
       /\ file.data.Columns[1].LangType = id_type
       /\ file.data.Columns[1].IsPrimaryKey
       /\ file.data.Columns[2].FieldName = n_email
       /\ file.data.Columns[2].LangType = email_type

\* C24: end to end, for the schema with one table users (id: integer, non-null,
\* primary key; email: string, nullable) and no configured type mappings: with
\* language go and nullable_strategy pointer the run does not fail and ends with
\* the file users.go, id typed int64 and email typed *string; with language rust
\* and nullable_strategy option it ends with email typed Option<String>.
C24_EndToEnd ==
    /\ EndToEnd("go", "pointer") =>
          /\ pc # "failed"
          /\ pc = "done" => OnlyFile(<<"u", "s", "e", "r", "s", ".", "g", "o">>, "go_struct.hbs", <<"i", "n", "t", "6", "4">>, <<"*", "s", "t", "r", "i", "n", "g">>)
    /\ EndToEnd("rust", "option") =>
          /\ pc # "failed"
          /\ pc = "done" => OnlyFile(<<"u", "s", "e", "r", "s", ".", "r", "s">>, "rust_struct.hbs", <<"i", "6", "4">>, <<"O", "p", "t", "i", "o", "n", "<", "S", "t", "r", "i", "n", "g", ">">>)

\* Both runs of the scenario are done: one for go, one for rust.
C24_Witness ==
    /\ pc = "done"
    /\ EndToEnd("rust", "option")
    /\ <<"generated", <<"u", "s", "e", "r", "s", ".", "r", "s">>>> \in DOMAIN fs.files

\* The context of the file the step writes for the current table.
WrittenData ==
    fs'.files[OutputFilePath(cfg.generation.output_dir, CurrentTable, output_extension)].data

\* C25: each table's render context is built fresh and is independent of the
\* tables processed before it: a table starts with no records and no registered
\* imports, the Columns of the context it is rendered with hold exactly one
\* record per column of that table, in column order, and its Imports are the
\* language's default imports followed by the imports of that table's own
\* columns, computed from that table alone (the default imports alone when the
\* table has no nullable column).
C25_ContextIsFreshPerTable ==
    [][ /\ (TableStep /\ pc' = "column") =>
              /\ columns_data_for_template' = <<>>
              /\ dynamic_imports' = <<>>
              /\ template_data'.Columns = <<>>
              /\ template_data'.Imports = DefaultImports
              /\ template_data'.TableName = CurrentTable.name
        /\ (FinishStep /\ pc' = "table") =>
              LET own == ColumnsFrom(cfg, generator.lang_config, lang_name_for_mapping,
                                     CurrentTable.columns, 1, <<>>, <<>>)
              IN  /\ Len(WrittenData.Columns) = Len(CurrentTable.columns)
                  /\ \A i \in DOMAIN CurrentTable.columns :
                        WrittenData.Columns[i].OriginalColumnName = CurrentTable.columns[i].name
                  /\ WrittenData.Columns = own.records
                  /\ WrittenData.Imports = MergeImports(DefaultImports, own.imports)
                  /\ (\A i \in DOMAIN CurrentTable.columns : ~CurrentTable.columns[i].is_nullable)
                        => WrittenData.Imports = DefaultImports
      ]_vars

\* A run over users, whose nullable column registered an import, and then
\* temp_users, which has no nullable column, is done: the context of the second
\* file has no import.
C25_Witness ==
    /\ pc = "done"
    /\ <<"generated", <<"u", "s", "e", "r", "s", ".", "g", "o">>>> \in DOMAIN fs.files
    /\ <<"generated", <<"t", "e", "m", "p", "_", "u", "s", "e", "r", "s", ".", "g", "o">>>> \in DOMAIN fs.files
    /\ fs.files[<<"generated", <<"u", "s", "e", "r", "s", ".", "g", "o">>>>].data.Imports # <<>>
    /\ fs.files[<<"generated", <<"t", "e", "m", "p", "_", "u", "s", "e", "r", "s", ".", "g", "o">>>>].data.Imports = <<>>
    /\ Len(fs.files[<<"generated", <<"u", "s", "e", "r", "s", ".", "g", "o">>>>].data.Columns) = 2
    /\ Len(fs.files[<<"generated", <<"t", "e", "m", "p", "_", "u", "s", "e", "r", "s", ".", "g", "o">>>>].data.Columns) = 1

\* A step of GenerateCodeBegin.
GenerateStep == pc = "generate" /\ pc' # "generate"

\* C26: for every configuration, the language name the generator uses for type
\* resolution, the nullability tables, tag formatting, the default output
\* extension and the context's CurrentLanguage is the name of the target
\* language being generated, including when two or more entries of languages
\* hold equal LanguageConfig values.
C26_LanguageNameIsTheTarget ==
    [][ /\ GenerateStep =>
              /\ lang_name_for_mapping' = TargetLanguage
              /\ (pc' = "table" /\ generator.lang_config.output_extension = None) =>
                    Some(output_extension') = get_default_output_extension(TargetLanguage)
        /\ (TableStep /\ pc' = "column") => template_data'.CurrentLanguage = TargetLanguage
        /\ ColumnStep =>
              LET raw == raw_lang_type_of(cfg, active_db_config.db_type, CurrentColumn,
                                          TargetLanguage)
                  effective == EffectiveLangType(raw.t, CurrentColumn.is_nullable, Strategy,
                                                 TargetLanguage, dynamic_imports)
              IN  /\ raw_lang_type' = raw.t
                  /\ NewRecord.LangType = effective.t
                  /\ dynamic_imports' = effective.imports
                  /\ NewRecord.LangTags =
                        final_tags_string(TargetLanguage,
                                          ColumnTags(generator.lang_config, CurrentColumn))
      ]_vars

\* C27: when output_extension is unset and the language name has no entry in the
\* language-to-extension table, generate_code fails before the output directory
\* is created and before any file is written, even when a template was
\* successfully loaded from template_path or template_file: the step fails with
\* "Unknown language" and leaves the file system as it was.
C27_UnknownExtensionFailsBeforeOutput ==
    [][ /\ (GenerateStep /\ generator.lang_config.output_extension = None
                         /\ get_default_output_extension(lang_name_for_mapping') = None) =>
              /\ generator.handlebars # None
              /\ pc' = "failed"
              /\ error' = Some("Unknown language")
              /\ fs' = fs
              /\ stdout' = stdout
              /\ lang_idx = 1 => (fs.dirs = {} /\ DOMAIN fs.files = {})
        /\ error' = Some("Unknown language") =>
              (GenerateStep /\ generator.lang_config.output_extension = None)
        /\ (pc = "failed" /\ error = Some("Unknown language")) => FALSE
      ]_vars

\* The run for lua, which has no default extension, has a template loaded from
\* template_path and has failed without creating the output directory.
C27_Witness ==
    /\ pc = "failed"
    /\ error = Some("Unknown language")
    /\ generator # None
    /\ generator.handlebars # None
    /\ generator.lang_config.template_path = Some("custom/model.hbs")
    /\ generator.lang_config.output_extension = None
    /\ fs.dirs = {}
    /\ DOMAIN fs.files = {}

(***************************************************************************)
(* Properties of the init command (specification SpecCli)                  *)
(***************************************************************************)
\* A step of the init command.
InitStep == pc = "start" /\ call[1].init /\ pc' # "start"

\* C30: the init command never overwrites a configuration file: if a file
\* already exists at the given path the command fails and the file's content is
\* unchanged (as is every other file); the default configuration is written only
\* when no file exists there, and then it is the one file that is new; in both
\* cases no database is contacted and no code is generated: the schema, the
\* generator, the directories and the position in the generation loop are
\* untouched and the command ends.
C30_InitNeverOverwrites ==
    [][ InitStep =>
          LET config_path == call[1].config IN
          /\ config_path \in DOMAIN fs.files =>
                /\ pc' = "failed"
                /\ error' = Some("Configuration file already exists")
                /\ fs' = fs
          /\ \A p \in DOMAIN fs.files :
                p \in DOMAIN fs'.files /\ fs'.files[p] = fs.files[p]
          /\ fs'.files # fs.files =>
                /\ config_path \notin DOMAIN fs.files
                /\ DOMAIN fs'.files = DOMAIN fs.files \cup {config_path}
                /\ fs'.files[config_path] = default_config
                /\ pc' = "done"
          /\ pc' = "done" => fs'.files[config_path] = default_config
          /\ pc' \in {"done", "failed"}
          /\ UNCHANGED <<schema, generator, cfg, active_db_config, lang_idx, table_idx>>
          /\ generator = None
          /\ fs'.dirs = fs.dirs
          /\ \A i \in DOMAIN stdout' :
                stdout'[i][1] \in {"Created default configuration file",
                                   "Please edit the file",
                                   "Run 'codegen model -c' to generate code"}
      ]_vars

\* The command was given the path of a file the user had edited: it has failed
\* and the file still holds the user's text.
C30_Witness ==
    /\ pc = "failed"
    /\ error = Some("Configuration file already exists")
    /\ call[1].config = <<"codegen.yaml">>
    /\ <<"codegen.yaml">> \in DOMAIN fs.files
    /\ fs.files[<<"codegen.yaml">>] = "active_database: prod ..."

====
